---------------------------- MODULE Spec2Model ----------------------------
(***************************************************************************)
(* Record consolidation engine of SelfEcoGrab.                             *)
(*                                                                         *)
(* Two implementations are modelled:                                       *)
(*   - the version reducer ("Strategy C") of                               *)
(*     src/google雲端中的爬蟲/data_cleaner.py                               *)
(*   - the expiry filter and hash de-duplication of                        *)
(*     src/utils/data_cleaner.py                                           *)
(* together with the file operations of both: loading the input files,     *)
(* writing batch and merged files, rotating merged files into _archive     *)
(* and pruning old archives.  The data directory is a function from paths  *)
(* to files; a refused file operation is an input of the action.           *)
(*                                                                         *)
(* A JSON value is a record [type, s, n, zone]:                            *)
(*   type = "null"    None                                                 *)
(*   type = "str"     a string, s its characters                           *)
(*   type = "isostr"  a string holding an ISO-8601 date-time: n is the     *)
(*                    instant, zone the zone suffix written ("" or "Z")    *)
(*   type = "int"     the number n                                         *)
(* A JSON object (a Python dict) is a sequence of [k, v] items with        *)
(* distinct keys, in insertion order.                                      *)
(***************************************************************************)
EXTENDS Integers, Sequences, FiniteSets

VARIABLES
    pc,              \* position of the run
    records,         \* the record list handed to the operation
    result,          \* rows returned by keep_only_changed_versions
    result2,         \* rows returned by a second pass over result
    now,             \* the clock read by DataCleaner
    date_value,      \* the argument of DataCleaner._is_expired
    expired,         \* what _is_expired returned
    crawler_type,    \* the argument of clean_crawler_type
    valid_records,   \* clean_crawler_type: records after the expiry filter
    unique_records,  \* clean_crawler_type: records after de-duplication
    disk,            \* the files of the data directory: path -> file
    disk0,           \* the files as they were when the operation began
    written,         \* the paths the operation wrote, in the order written
    ready,           \* the paths run_data_cleaner returned as merged_files
    failed,          \* the paths on which the filesystem refused an operation
    run,             \* the number of runs begun
    history          \* the rows the merge runs have loaded so far, and whether
                     \* a file operation of theirs was refused

vars == <<pc, records, result, result2, now, date_value, expired,
          crawler_type, valid_records, unique_records,
          disk, disk0, written, ready, failed, run, history>>

\* The variables of the file operations, and the state in which no file
\* operation is modelled.
fsvars == <<disk, disk0, written, ready, failed, run, history>>

NoHistory == [loaded |-> {}, refused |-> FALSE]

NoFiles ==
    /\ disk = <<>>
    /\ disk0 = <<>>
    /\ written = <<>>
    /\ ready = {}
    /\ failed = {}
    /\ run = 0
    /\ history = NoHistory

-----------------------------------------------------------------------------
(* Bounds of the model *)

MaxLen == 3

MaxT == 3

-----------------------------------------------------------------------------
(* JSON values *)

None == [type |-> "null", s |-> <<>>, n |-> 0, zone |-> ""]

Str(chars) == [type |-> "str", s |-> chars, n |-> 0, zone |-> ""]

IsoStr(t, z) == [type |-> "isostr", s |-> <<>>, n |-> t, zone |-> z]

Num(k) == [type |-> "int", s |-> <<>>, n |-> k, zone |-> ""]

\* isinstance(v, str)
IsStr(v) == v.type \in {"str", "isostr"}

\* bool(v): None, "" and 0 are falsy
Truthy(v) ==
    CASE v.type = "null" -> FALSE
      [] v.type = "str" -> v.s # <<>>
      [] v.type = "int" -> v.n # 0
      [] OTHER -> TRUE

\* Characters of the model in code point order.
Alphabet ==
    << " ", "-", ".", "/", "0", "1", "2", "3", "4", "5", "6", "7", "8", "9",
       "X", "_", "a", "b", "c", "d", "e", "f", "g", "h", "i", "j", "k", "l",
       "m", "n", "o", "p", "q", "r", "s", "t", "u", "v", "w", "x", "y", "z" >>

CharCode(c) == CHOOSE i \in 1..Len(Alphabet) : Alphabet[i] = c

\* str < str: lexicographic by code point
RECURSIVE StrLess(_, _)
StrLess(a, b) ==
    IF b = <<>> THEN FALSE
    ELSE IF a = <<>> THEN TRUE
    ELSE IF Head(a) # Head(b) THEN CharCode(Head(a)) < CharCode(Head(b))
    ELSE StrLess(Tail(a), Tail(b))

-----------------------------------------------------------------------------
(* Python dicts *)

Item(k, v) == [k |-> k, v |-> v]

Keys(d) == {d[i].k : i \in 1..Len(d)}

Has(d, k) == k \in Keys(d)

\* d.get(k, default)
GetOr(d, k, default) ==
    IF Has(d, k) THEN d[CHOOSE i \in 1..Len(d) : d[i].k = k].v ELSE default

\* d.get(k)
Get(d, k) == GetOr(d, k, None)

\* The mapping a dict denotes: dict == dict compares mappings, not item order.
AsMap(d) == [k \in Keys(d) |-> GetOr(d, k, None)]

DictEq(a, b) == AsMap(a) = AsMap(b)

-----------------------------------------------------------------------------
(* Version reducer: src/google雲端中的爬蟲/data_cleaner.py *)

EXCLUDED_FIELDS_FOR_CHANGE_DETECTION ==
    { "scrapedAt", "scraped_at", "scrapedTime", "scrape_time",
      "scraped_at_ts", "lastUpdateTime", "updatedAt", "updated_at" }

\* k.startswith("_"), over the field names of the model
StartsWithUnderscore(k) == k \in {"_source", "_page"}

\* A normalisation that forgets the fields with the internal marker prefix.
NormalizedKeepsUnderscore(record) ==
    LET Keep(item) == item.k \notin EXCLUDED_FIELDS_FOR_CHANGE_DETECTION
    IN  SelectSeq(record, Keep)

\* {k: v for k, v in record.items() if k not in EXCLUDED... and not
\*  k.startswith("_")}
_normalized_record(record) ==
    LET Keep(item) == /\ item.k \notin EXCLUDED_FIELDS_FOR_CHANGE_DETECTION
                      /\ ~StartsWithUnderscore(item.k)
    IN  SelectSeq(record, Keep)

\* A comparison of the whole rows, capture timestamps included.
ContentChangedRaw(old, new) == ~DictEq(old, new)

_content_has_changed(old, new) ==
    ~DictEq(_normalized_record(old), _normalized_record(new))

\* The fields _record_timestamp_key tries, in order.
TimestampFields ==
    << "scrapedAt", "scraped_at", "scrapedTime", "scrape_time",
       "createdAt", "created_at" >>

\* ts.replace("Z", "+00:00"): the zone suffix "Z" becomes "+00:00" (text that
\* holds no date-time stays unparsable whatever is replaced in it).
ReplaceZ(v) ==
    IF v.type = "isostr" /\ v.zone = "Z" THEN [v EXCEPT !.zone = "+00:00"] ELSE v

\* datetime.fromisoformat succeeds
IsoParses(v) == v.type = "isostr" /\ v.zone \in {"", "+00:00"}

\* datetime.fromisoformat(v): zone "" gives a naive datetime, "+00:00" an
\* aware one
FromIsoFormat(v) == [type |-> "datetime", s |-> <<>>, n |-> v.n, zone |-> v.zone]

Key(prio, v) == [prio |-> prio, v |-> v]

RECURSIVE TimestampKeyFrom(_, _)
TimestampKeyFrom(rec, i) ==
    IF i > Len(TimestampFields) THEN Key(2, Str(<<>>))
    ELSE LET ts == Get(rec, TimestampFields[i])
         IN  IF ~Truthy(ts) THEN TimestampKeyFrom(rec, i + 1)
             ELSE IF IsStr(ts)
                  THEN IF IsoParses(ReplaceZ(ts))
                       THEN Key(0, FromIsoFormat(ReplaceZ(ts)))
                       ELSE Key(1, ts)
                  ELSE Key(1, ts)

\* A key taken from the last candidate field alone.
KeyOfLastFieldOnly(rec) == TimestampKeyFrom(rec, Len(TimestampFields))

_record_timestamp_key(rec) == TimestampKeyFrom(rec, 1)

\* x < y is defined in Python (it raises TypeError otherwise): two naive or
\* two aware datetimes, two strings, two numbers.
Orderable(x, y) ==
    \/ x.type = "datetime" /\ y.type = "datetime" /\ x.zone = y.zone
    \/ IsStr(x) /\ IsStr(y)
    \/ x.type = "int" /\ y.type = "int"

\* x < y for orderable x, y
ValueLess(x, y) ==
    CASE x.type = "datetime" -> x.n < y.n
      [] x.type = "int" -> x.n < y.n
      [] OTHER -> StrLess(x.s, y.s)

\* Tuple comparison a < b of two (priority, value) keys: the first differing
\* element decides; the values are compared with == first and with < only
\* when they differ.
KeyRaises(a, b) == a.prio = b.prio /\ a.v # b.v /\ ~Orderable(a.v, b.v)

KeyLess(a, b) ==
    IF a.prio # b.prio THEN a.prio < b.prio
    ELSE a.v # b.v /\ ValueLess(a.v, b.v)

\* sorted(versions, key=_record_timestamp_key) raises: a comparison sort has
\* to compare some pair of keys that cannot be ordered.
SortRaises(versions) ==
    \E i, j \in 1..Len(versions) :
        KeyRaises(_record_timestamp_key(versions[i]),
                  _record_timestamp_key(versions[j]))

\* Insert v after every element that is not greater than it (stable).
RECURSIVE InsertSorted(_, _)
InsertSorted(sortedSoFar, v) ==
    IF sortedSoFar = <<>> THEN <<v>>
    ELSE IF KeyLess(_record_timestamp_key(v),
                    _record_timestamp_key(Head(sortedSoFar)))
         THEN <<v>> \o sortedSoFar
         ELSE <<Head(sortedSoFar)>> \o InsertSorted(Tail(sortedSoFar), v)

RECURSIVE SortedStable(_)
SortedStable(versions) ==
    IF versions = <<>> THEN <<>>
    ELSE InsertSorted(SortedStable(SubSeq(versions, 1, Len(versions) - 1)),
                      versions[Len(versions)])

\* sorted(...)[::-1]: newest first, rows of equal key in reverse input order.
SortedReversed(versions) ==
    LET srt == SortedStable(versions)
    IN  [i \in 1..Len(srt) |-> srt[Len(srt) + 1 - i]]

\* No sort at all.
UnsortedVersions(versions) == versions

\* sorted(versions, key=_record_timestamp_key), when it does not raise
versions_sorted(versions) == SortedStable(versions)

\* A walk that keeps the first row of the group and no other.
KeepFirstOnly(vs) == IF vs = <<>> THEN <<>> ELSE <<vs[1]>>

\* The walk over one sorted group: previous_kept is the last row appended.
RECURSIVE KeepChanged(_)
KeepChanged(vs) ==
    IF vs = <<>> THEN <<>>
    ELSE LET kept == KeepChanged(SubSeq(vs, 1, Len(vs) - 1))
             v == vs[Len(vs)]
         IN  IF kept = <<>> THEN <<v>>
             ELSE IF _content_has_changed(kept[Len(kept)], v)
                  THEN Append(kept, v)
                  ELSE kept

\* Grouping that forgets the "key is None: continue" test.
RECURSIVE GroupedKeepingNone(_, _)
GroupedKeepingNone(rows, id_field) ==
    IF rows = <<>> THEN <<>>
    ELSE LET g == GroupedKeepingNone(SubSeq(rows, 1, Len(rows) - 1), id_field)
             r == rows[Len(rows)]
             key == Get(r, id_field)
         IN  IF \E i \in 1..Len(g) : g[i].k = key
             THEN LET i == CHOOSE i \in 1..Len(g) : g[i].k = key
                  IN  [g EXCEPT ![i].v = Append(@, r)]
             ELSE Append(g, Item(key, <<r>>))

\* The dict grouped, as its items [k |-> id, v |-> rows] in insertion order.
RECURSIVE Grouped(_, _)
Grouped(rows, id_field) ==
    IF rows = <<>> THEN <<>>
    ELSE LET g == Grouped(SubSeq(rows, 1, Len(rows) - 1), id_field)
             r == rows[Len(rows)]
             key == Get(r, id_field)
         IN  IF key = None THEN g
             ELSE IF \E i \in 1..Len(g) : g[i].k = key
                  THEN LET i == CHOOSE i \in 1..Len(g) : g[i].k = key
                       IN  [g EXCEPT ![i].v = Append(@, r)]
                  ELSE Append(g, Item(key, <<r>>))

RECURSIVE ConcatGroups(_)
ConcatGroups(g) ==
    IF g = <<>> THEN <<>>
    ELSE KeepChanged(versions_sorted(Head(g).v)) \o ConcatGroups(Tail(g))

\* A reducer that sorts the whole result by time before returning it.
KeepOnlyGloballySorted(rows, id_field) ==
    LET g == Grouped(rows, id_field)
        raised == \E i \in 1..Len(g) : SortRaises(g[i].v)
    IN  [raised |-> raised \/ SortRaises(ConcatGroups(g)),
         rows |-> IF raised \/ SortRaises(ConcatGroups(g)) THEN <<>>
                  ELSE SortedStable(ConcatGroups(g))]

\* keep_only_changed_versions(records, id_field): raised tells that sorting a
\* group raised TypeError, rows is the list returned otherwise.
keep_only_changed_versions(rows, id_field) ==
    LET g == Grouped(rows, id_field)
        raised == \E i \in 1..Len(g) : SortRaises(g[i].v)
    IN  [raised |-> raised,
         rows |-> IF raised THEN <<>> ELSE ConcatGroups(g)]

\* CrawlerConfig.id_field
id_field == "tenderId"

-----------------------------------------------------------------------------
(* Inputs of the version reducer *)

X1 == Str(<<"X", "1">>)

X2 == Str(<<"X", "2">>)

TitleA == Str(<<"a">>)

TitleB == Str(<<"b">>)

Rec(id, ts, title) ==
    << Item("tenderId", id), Item("title", title), Item("scrapedAt", ts) >>

Times == 1..MaxT

\* Rows with an id and a zone-less ISO capture time.
CoreRows ==
    {Rec(X1, IsoStr(t, ""), title) : t \in Times, title \in {TitleA, TitleB}}
    \cup {Rec(X2, IsoStr(t, ""), TitleA) : t \in {1, 2}}

\* Rows without an id: the key is absent, or its value is null.
NoIdRows ==
    { << Item("title", TitleA), Item("scrapedAt", IsoStr(1, "")) >>,
      Rec(None, IsoStr(2, ""), TitleB) }

\* Rows whose capture time is zone-marked, unparsable, a number or missing.
OddRows ==
    { Rec(X1, IsoStr(2, "Z"), TitleB),
      Rec(X1, Str(<<"n", "/", "a">>), TitleB),
      Rec(X1, Num(5), TitleA),
      << Item("tenderId", X1), Item("title", TitleA) >> }

ReducerRows == CoreRows \cup NoIdRows \cup OddRows

SeqsUpTo(S, n) == UNION {[1..k -> S] : k \in 0..n}

NoClock == [year |-> 0, month |-> 0, day |-> 0, hour |-> 0]

-----------------------------------------------------------------------------
(* The version reducer applied to a record list, and to its own output *)

InitReduce ==
    /\ pc = "start"
    /\ NoFiles
    /\ records \in SeqsUpTo(ReducerRows, MaxLen)
    /\ result = <<>>
    /\ result2 = <<>>
    /\ now = NoClock
    /\ date_value = None
    /\ expired = FALSE
    /\ crawler_type = ""
    /\ valid_records = <<>>
    /\ unique_records = <<>>

KeepOnlyChangedVersions ==
    /\ pc = "start"
    /\ LET r == keep_only_changed_versions(records, id_field)
       IN  /\ pc' = IF r.raised THEN "raised" ELSE "reduced"
           /\ result' = r.rows
    /\ UNCHANGED <<records, result2, now, date_value, expired,
                   crawler_type, valid_records, unique_records>>
    /\ UNCHANGED fsvars

KeepOnlyChangedVersionsAgain ==
    /\ pc = "reduced"
    /\ LET r == keep_only_changed_versions(result, id_field)
       IN  /\ pc' = IF r.raised THEN "raised" ELSE "reduced2"
           /\ result2' = r.rows
    /\ UNCHANGED <<records, result, now, date_value, expired,
                   crawler_type, valid_records, unique_records>>
    /\ UNCHANGED fsvars

NextReduce == KeepOnlyChangedVersions \/ KeepOnlyChangedVersionsAgain

SpecReduce == InitReduce /\ [][NextReduce]_vars

-----------------------------------------------------------------------------
(* Vocabulary of the claims about the version reducer *)

\* The Fingerprints of two records are equal.
SameFingerprint(a, b) == AsMap(_normalized_record(a)) = AsMap(_normalized_record(b))

\* The rows of a list that carry the id.
GroupOf(rows, id) ==
    LET InGroup(r) == Get(r, id_field) = id
    IN  SelectSeq(rows, InGroup)

\* The non-null ids occurring in a list.
IdsOf(rows) == {Get(rows[i], id_field) : i \in 1..Len(rows)} \ {None}

\* The elements of S at the indices K, in order.
RECURSIVE Restrict(_, _)
Restrict(S, K) ==
    IF K = {} THEN <<>>
    ELSE LET m == CHOOSE m \in K : \A k \in K : k <= m
         IN  Append(Restrict(S, K \ {m}), S[m])

\* R is a subsequence of S.
RECURSIVE IsSubseq(_, _)
IsSubseq(R, S) ==
    IF R = <<>> THEN TRUE
    ELSE IF S = <<>> THEN FALSE
    ELSE IF Head(R) = Head(S) THEN IsSubseq(Tail(R), Tail(S))
    ELSE IsSubseq(R, Tail(S))

\* The greatest index of K below i.
LastBefore(K, i) == CHOOSE j \in K : j < i /\ \A k \in K : k < i => k <= j

\* K is the set of indices the reduction rule retains in the sorted group S.
IsRetainedSet(S, K) ==
    /\ 1 \in K
    /\ \A i \in 2..Len(S) :
          i \in K <=> ~SameFingerprint(S[i], S[LastBefore(K, i)])

ScenarioT1 == Rec(X1, IsoStr(1, ""), TitleA)

ScenarioT2 == Rec(X1, IsoStr(2, ""), TitleA)

ScenarioT3 == Rec(X1, IsoStr(3, ""), TitleB)

\* C1: when the reducer returns, the rows it returns for each id are the rows
\* of the group, in ascending Temporal Key order, at the indices K where 1 is
\* in K and a later index is in K exactly when its Fingerprint differs from
\* that of the greatest index of K before it; contents {a, a, b} at t1<t2<t3
\* give the rows at t1 and t3.
C1_ReductionRule ==
    pc = "reduced" =>
        /\ \A id \in IdsOf(records) :
              LET S == versions_sorted(GroupOf(records, id))
              IN  \E K \in SUBSET (1..Len(S)) :
                      /\ IsRetainedSet(S, K)
                      /\ GroupOf(result, id) = Restrict(S, K)
        /\ (/\ Len(records) = 3
            /\ {records[i] : i \in 1..3} = {ScenarioT1, ScenarioT2, ScenarioT3})
           => result = <<ScenarioT1, ScenarioT3>>

C1_Witness ==
    /\ pc = "reduced"
    /\ records = <<ScenarioT2, ScenarioT3, ScenarioT1>>
    /\ result = <<ScenarioT1, ScenarioT3>>

\* C2: a second pass of the reducer over its own output returns that output
\* unchanged, and in the output every row of a group differs in Fingerprint
\* from the row before it in that group.
C2_Idempotent ==
    /\ pc = "reduced2" => result2 = result
    /\ pc \in {"reduced", "reduced2"} =>
          \A id \in IdsOf(result) :
              LET R == GroupOf(result, id)
              IN  \A i \in 2..Len(R) : ~SameFingerprint(R[i - 1], R[i])

C2_Witness ==
    /\ pc = "reduced2"
    /\ Len(result) < Len(records)
    /\ \E id \in IdsOf(result) : Len(GroupOf(result, id)) >= 2
    /\ result2 = result

\* C3: the rows returned for one id are a subsequence of the group sorted by
\* Temporal Key, and their keys never decrease.
C3_GroupOrder ==
    pc = "reduced" =>
        \A id \in IdsOf(records) :
            LET R == GroupOf(result, id)
            IN  /\ IsSubseq(R, SortedStable(GroupOf(records, id)))
                /\ \A i, j \in 1..Len(R) :
                      i < j => ~KeyLess(_record_timestamp_key(R[j]),
                                        _record_timestamp_key(R[i]))

C3_Witness ==
    /\ pc = "reduced"
    /\ records = <<ScenarioT3, ScenarioT1>>
    /\ result = <<ScenarioT1, ScenarioT3>>

\* C4: the output holds no row with a missing or null id, and every non-null
\* id of the input occurs in it.
C4_NullIdsDropped ==
    pc = "reduced" =>
        /\ \A i \in 1..Len(result) : Get(result[i], id_field) # None
        /\ IdsOf(records) \subseteq IdsOf(result)

C4_Witness ==
    /\ pc = "reduced"
    /\ \E i \in 1..Len(records) : ~Has(records[i], id_field)
    /\ \E i \in 1..Len(records) :
          Has(records[i], id_field) /\ Get(records[i], id_field) = None
    /\ IdsOf(records) # {}
    /\ Len(result) < Len(records)

\* The non-null ids of a list in the order of their first occurrence.
RECURSIVE FirstSeenIds(_)
FirstSeenIds(rows) ==
    IF rows = <<>> THEN <<>>
    ELSE LET front == FirstSeenIds(SubSeq(rows, 1, Len(rows) - 1))
             id == Get(rows[Len(rows)], id_field)
         IN  IF id = None \/ id \in {front[i] : i \in 1..Len(front)}
             THEN front
             ELSE Append(front, id)

\* The ids of a list with each run of equal ids written once.
RECURSIVE IdRuns(_)
IdRuns(rows) ==
    IF rows = <<>> THEN <<>>
    ELSE LET front == IdRuns(SubSeq(rows, 1, Len(rows) - 1))
             id == Get(rows[Len(rows)], id_field)
         IN  IF front # <<>> /\ front[Len(front)] = id
             THEN front
             ELSE Append(front, id)

\* C5: the output is one contiguous run of rows per id, the runs in the order
\* in which the ids first occur in the input.
C5_GroupMajor ==
    pc = "reduced" => IdRuns(result) = FirstSeenIds(records)

\* Two groups interleaved in the input, and an output that is not in time
\* order.
C5_Witness ==
    /\ pc = "reduced"
    /\ Len(FirstSeenIds(records)) = 2
    /\ Len(records) = 3
    /\ Get(records[1], id_field) = Get(records[3], id_field)
    /\ Get(records[2], id_field) # Get(records[1], id_field)
    /\ \E i \in 1..Len(result) : \E j \in 1..Len(result) :
          /\ i < j
          /\ KeyLess(_record_timestamp_key(result[j]),
                     _record_timestamp_key(result[i]))

\* The rows of a list that have an id.
WithId(rows) == {rows[i] : i \in {k \in 1..Len(rows) : Get(rows[k], id_field) # None}}

\* Some row of the set has the id and the Fingerprint of r.
VersionIn(r, S) ==
    \E q \in S : Get(q, id_field) = Get(r, id_field) /\ SameFingerprint(q, r)

\* C28: the reducer loses no content version and invents none: every input
\* row with an id has a row of the same id and Fingerprint in the output,
\* and every output row is an input row with an id.
C28_NoVersionLost ==
    pc = "reduced" =>
        /\ \A r \in WithId(records) : VersionIn(r, WithId(result))
        /\ {result[i] : i \in 1..Len(result)} \subseteq WithId(records)

\* Three captures of one id, the first two of equal content: two rows are
\* returned, and each of the three rows has its version among them.
C28_Witness ==
    /\ pc = "reduced"
    /\ Len(records) = 3
    /\ \A i \in 1..3 : Get(records[i], id_field) = X1
    /\ SameFingerprint(records[1], records[2])
    /\ ~SameFingerprint(records[1], records[3])
    /\ Len(result) = 2
    /\ \A i \in 1..3 : VersionIn(records[i], WithId(result))

-----------------------------------------------------------------------------
(* The Fingerprint: rows of one id that differ in single fields *)

MaxFpLen == 3

Base(t, title) == Rec(X1, IsoStr(t, ""), title)

With(r, f, v) == Append(r, Item(f, v))

\* Rows that add one field to the row captured at time 1: a capture or update
\* timestamp, an internal field, a creation timestamp; and the row captured at
\* time 2 with its items in another order.
FingerprintRows ==
    {Base(1, TitleA), Base(2, TitleA), Base(2, TitleB)}
    \cup {With(Base(1, TitleA), f, IsoStr(2, "")) :
             f \in {"scraped_at", "scrapedTime", "scrape_time", "scraped_at_ts",
                    "lastUpdateTime", "updatedAt", "updated_at"}}
    \cup {With(Base(1, TitleA), "_source", Str(<<"b">>))}
    \cup {With(Base(1, TitleA), f, IsoStr(2, "")) : f \in {"createdAt", "created_at"}}
    \cup {<< Item("scrapedAt", IsoStr(2, "")), Item("title", TitleA),
             Item("tenderId", X1) >>}

InitFingerprint ==
    /\ pc = "start"
    /\ NoFiles
    /\ records \in SeqsUpTo(FingerprintRows, MaxFpLen)
    /\ result = <<>>
    /\ result2 = <<>>
    /\ now = NoClock
    /\ date_value = None
    /\ expired = FALSE
    /\ crawler_type = ""
    /\ valid_records = <<>>
    /\ unique_records = <<>>

SpecFingerprint == InitFingerprint /\ [][NextReduce]_vars

\* The field names the Fingerprint leaves out: the scraped-at and last-updated
\* variants, and the names with the internal marker prefix.
Volatile(k) ==
    \/ k \in {"scrapedAt", "scraped_at", "scrapedTime", "scrape_time",
              "scraped_at_ts", "lastUpdateTime", "updatedAt", "updated_at"}
    \/ StartsWithUnderscore(k)

\* The same with the created-at variants added.
VolatileOrCreated(k) == Volatile(k) \/ k \in {"createdAt", "created_at"}

\* Two rows agree on every field outside Vol.
DiffersOnlyIn(a, b, Vol(_)) ==
    \A k \in Keys(a) \cup Keys(b) :
        ~Vol(k) => Has(a, k) /\ Has(b, k) /\ Get(a, k) = Get(b, k)

\* How often a row occurs in a list.
Count(r, rows) == Cardinality({i \in 1..Len(rows) : rows[i] = r})

\* C6 (as amended): the Fingerprint of a row is the row without the scraped-at
\* and last-updated variants and without the fields with the internal marker
\* prefix, created-at fields included in it; the reducer returns for each id
\* the first row of the sorted group and every later row that differs from
\* the row just before it in a field of the Fingerprint, so a row that
\* differs from the row before it only in left-out fields is discarded and
\* one that differs in a created-at field is retained.
C6_FingerprintFields ==
    pc = "reduced" =>
        /\ \A i \in 1..Len(records) :
              AsMap(_normalized_record(records[i])) =
                  [k \in {k \in Keys(records[i]) : ~Volatile(k)} |->
                      Get(records[i], k)]
        /\ \A id \in IdsOf(records) :
              LET S == versions_sorted(GroupOf(records, id))
              IN  GroupOf(result, id) =
                      Restrict(S, {1} \cup
                          {i \in 2..Len(S) :
                              ~DiffersOnlyIn(S[i - 1], S[i], Volatile)})

C6_Witness ==
    /\ pc = "reduced"
    /\ records = << Base(1, TitleA),
                    With(Base(1, TitleA), "lastUpdateTime", IsoStr(2, "")),
                    With(Base(1, TitleA), "createdAt", IsoStr(2, "")) >>
    /\ result = << Base(1, TitleA),
                   With(Base(1, TitleA), "createdAt", IsoStr(2, "")) >>

\* C6 as stated: two rows of one id that differ only in scraped-at,
\* last-updated, created-at or internal fields have equal Fingerprints, and
\* the later one is not returned.
C6_AsStated ==
    pc = "reduced" =>
        \A id \in IdsOf(records) :
            LET S == versions_sorted(GroupOf(records, id))
            IN  \A i, j \in 1..Len(S) :
                    (i < j /\ DiffersOnlyIn(S[i], S[j], VolatileOrCreated)) =>
                        /\ SameFingerprint(S[i], S[j])
                        /\ Count(S[j], GroupOf(result, id)) < Count(S[j], S)

-----------------------------------------------------------------------------
(* Expiry check: src/utils/data_cleaner.py *)

\* ad_year = roc_year + 1911
RocOffset == 1911

IsSpace(c) == c = " "

IsDigit(c) == c \in {"0", "1", "2", "3", "4", "5", "6", "7", "8", "9"}

DigitVal(c) == CharCode(c) - CharCode("0")

\* int(text) of a run of digits
RECURSIVE ToInt(_)
ToInt(text) ==
    IF text = <<>> THEN 0
    ELSE 10 * ToInt(SubSeq(text, 1, Len(text) - 1)) + DigitVal(text[Len(text)])

RECURSIVE LStrip(_)
LStrip(text) ==
    IF text # <<>> /\ IsSpace(Head(text)) THEN LStrip(Tail(text)) ELSE text

RECURSIVE RStrip(_)
RStrip(text) ==
    IF text # <<>> /\ IsSpace(text[Len(text)])
    THEN RStrip(SubSeq(text, 1, Len(text) - 1))
    ELSE text

\* text.strip()
Strip(text) == RStrip(LStrip(text))

\* The character at position i, "" past the end.
At(text, i) == IF i <= Len(text) THEN text[i] ELSE ""

NoMatch == [matched |-> FALSE, year |-> 0, month |-> 0, day |-> 0]

\* re.match(r"(\d{3})SEP(\d{1,2})SEP(\d{1,2})", text): anchored at the start
\* only; each \d{1,2} takes two digits when two are there.
ReMatch(text, sep) ==
    LET mlen == IF IsDigit(At(text, 6)) THEN 2 ELSE 1
        dpos == 6 + mlen
        dlen == IF IsDigit(At(text, dpos + 1)) THEN 2 ELSE 1
    IN  IF /\ IsDigit(At(text, 1)) /\ IsDigit(At(text, 2)) /\ IsDigit(At(text, 3))
           /\ At(text, 4) = sep
           /\ IsDigit(At(text, 5))
           /\ At(text, 5 + mlen) = sep
           /\ IsDigit(At(text, dpos))
        THEN [matched |-> TRUE,
              year |-> ToInt(SubSeq(text, 1, 3)),
              month |-> ToInt(SubSeq(text, 5, 4 + mlen)),
              day |-> ToInt(SubSeq(text, dpos, dpos + dlen - 1))]
        ELSE NoMatch

IsLeap(y) == (y % 4 = 0 /\ y % 100 # 0) \/ y % 400 = 0

DaysInMonth(y, m) ==
    CASE m \in {4, 6, 9, 11} -> 30
      [] m = 2 -> IF IsLeap(y) THEN 29 ELSE 28
      [] OTHER -> 31

\* datetime(y, m, d) does not raise ValueError
ValidDate(y, m, d) ==
    /\ y >= 1 /\ y <= 9999
    /\ m >= 1 /\ m <= 12
    /\ d >= 1 /\ d <= DaysInMonth(y, m)

DateTime(y, m, d, h) == [year |-> y, month |-> m, day |-> d, hour |-> h]

\* a < b on datetimes
DateTimeLess(a, b) ==
    \/ a.year < b.year
    \/ a.year = b.year /\ a.month < b.month
    \/ a.year = b.year /\ a.month = b.month /\ a.day < b.day
    \/ a.year = b.year /\ a.month = b.month /\ a.day = b.day /\ a.hour < b.hour

\* The separators of the three patterns, in the order they are tried.
patterns == << "/", ".", "-" >>

RECURSIVE ParseFrom(_, _)
ParseFrom(text, i) ==
    IF i > Len(patterns) THEN NoClock
    ELSE LET match == ReMatch(text, patterns[i])
         IN  IF match.matched
                /\ ValidDate(match.year + RocOffset, match.month, match.day)
             THEN DateTime(match.year + RocOffset, match.month, match.day, 0)
             ELSE ParseFrom(text, i + 1)

\* _parse_roc_date(date_str) for a string: the datetime, or NoClock for None
_parse_roc_date(text) ==
    IF text = <<>> \/ Strip(text) = <<>> THEN NoClock
    ELSE ParseFrom(Strip(text), 1)

\* An expiry check that compares with the clock as read, time of day kept.
IsExpiredUntruncated(v, clock) ==
    IF ~Truthy(v) THEN [raised |-> FALSE, value |-> FALSE]
    ELSE IF ~IsStr(v) THEN [raised |-> TRUE, value |-> FALSE]
    ELSE IF v.type = "isostr" \/ Strip(v.s) = <<>>
         THEN [raised |-> FALSE, value |-> FALSE]
    ELSE LET parsed_date == _parse_roc_date(v.s)
         IN  IF parsed_date = NoClock THEN [raised |-> FALSE, value |-> FALSE]
             ELSE [raised |-> FALSE, value |-> DateTimeLess(parsed_date, clock)]

\* _is_expired(date_str) with datetime.now() = clock: raised tells that
\* date_str.strip() raised AttributeError (a truthy value that is no string).
\* An ISO date-time starts with four digits, which no pattern matches.
_is_expired(v, clock) ==
    IF ~Truthy(v) THEN [raised |-> FALSE, value |-> FALSE]
    ELSE IF ~IsStr(v) THEN [raised |-> TRUE, value |-> FALSE]
    ELSE IF v.type = "isostr" \/ Strip(v.s) = <<>>
         THEN [raised |-> FALSE, value |-> FALSE]
    ELSE LET parsed_date == _parse_roc_date(v.s)
             today == [clock EXCEPT !.hour = 0]
         IN  IF parsed_date = NoClock THEN [raised |-> FALSE, value |-> FALSE]
             ELSE [raised |-> FALSE, value |-> DateTimeLess(parsed_date, today)]

-----------------------------------------------------------------------------
(* Inputs of the expiry check *)

DigitChar(n) == Alphabet[n + CharCode("0")]

TwoDigits(n) == << DigitChar(n \div 10), DigitChar(n % 10) >>

ThreeDigits(n) == << DigitChar(n \div 100) >> \o TwoDigits(n % 100)

\* Month and day as the scrapers may write them, without a leading zero.
Digits(n) == IF n < 10 THEN << DigitChar(n) >> ELSE TwoDigits(n)

DateText(y, m, d, sep) ==
    ThreeDigits(y) \o <<sep>> \o TwoDigits(m) \o <<sep>> \o TwoDigits(d)

ShortDateText(y, m, d, sep) ==
    ThreeDigits(y) \o <<sep>> \o Digits(m) \o <<sep>> \o Digits(d)

\* The era dates written in the inputs.
Days == { <<114, 12, 12>>, <<114, 12, 13>>, <<114, 12, 14>>,
          <<113, 2, 29>>, <<115, 1, 1>> }

\* The texts that write one era date: each separator, padded or not with
\* zeros, with blanks around it, with text after it.
WrittenForms(ymd) ==
    UNION { { DateText(ymd[1], ymd[2], ymd[3], sep),
              ShortDateText(ymd[1], ymd[2], ymd[3], sep) } :
            sep \in {"/", ".", "-"} }
    \cup { <<" ">> \o DateText(ymd[1], ymd[2], ymd[3], "/") \o <<" ">>,
           DateText(ymd[1], ymd[2], ymd[3], "/") \o <<" ", "a", "b">> }

\* Texts no pattern accepts, or that name no day of the calendar.
UnparsableTexts ==
    { <<>>, <<" ">>,
      <<"n", "o", "t", "-", "a", "-", "d", "a", "t", "e">>,
      <<"1", "1", "4", "/", "1", "3", "/", "0", "1">>,
      <<"1", "1", "4", "/", "0", "2", "/", "2", "9">>,
      <<"1", "1", "4", "1", "/", "1", "2", "/", "1", "3">>,
      <<"1", "1", "4", "/", "1", "2", "-", "1", "3">>,
      <<"1", "1", "4", "/", "1", "2", "/">>,
      <<"1", "1", "4", "/", "1", "2", "3", "/", "1">> }

DateValues ==
    { None, Num(0), Num(1141213), IsoStr(1, "") }
    \cup { Str(t) : t \in UnparsableTexts }
    \cup { Str(t) : t \in UNION { WrittenForms(ymd) : ymd \in Days } }

Hours == {0, 15}

Clocks ==
    { DateTime(ymd[1], ymd[2], ymd[3], h) :
          ymd \in { <<2025, 12, 13>>, <<2025, 12, 14>>, <<2024, 2, 29>>,
                    <<2026, 1, 1>> },
          h \in Hours }

InitExpiry ==
    /\ pc = "start"
    /\ NoFiles
    /\ date_value \in DateValues
    /\ now \in Clocks
    /\ expired = FALSE
    /\ records = <<>>
    /\ result = <<>>
    /\ result2 = <<>>
    /\ crawler_type = ""
    /\ valid_records = <<>>
    /\ unique_records = <<>>

IsExpired ==
    /\ pc = "start"
    /\ LET r == _is_expired(date_value, now)
       IN  /\ pc' = IF r.raised THEN "raised" ELSE "checked"
           /\ expired' = r.value
    /\ UNCHANGED <<records, result, result2, now, date_value, crawler_type,
                   valid_records, unique_records>>
    /\ UNCHANGED fsvars

NextExpiry == IsExpired

SpecExpiry == InitExpiry /\ [][NextExpiry]_vars

\* The value is no string, or a string no pattern parses to a day.
Unparsable(v) == v.type # "str" \/ _parse_roc_date(v.s) = NoClock

\* C7: for a date value that is empty, null or parses under no pattern,
\* whatever its type, the check returns false and does not raise.
C7_FailOpen ==
    (pc \in {"checked", "raised"} /\ Unparsable(date_value)) =>
        (pc = "checked" /\ expired = FALSE)

\* The era date is a calendar day before the day of the clock.
DayBefore(ymd, clock) ==
    \/ ymd[1] + 1911 < clock.year
    \/ ymd[1] + 1911 = clock.year /\ ymd[2] < clock.month
    \/ ymd[1] + 1911 = clock.year /\ ymd[2] = clock.month /\ ymd[3] < clock.day

\* C8: for a text that writes an era date, the check returns true exactly
\* when that date is a calendar day before the day of the clock, and the
\* answer is the same at every hour of that day.
C8_ExpiredIffBeforeToday ==
    pc = "checked" =>
        \A ymd \in Days :
            (date_value.type = "str" /\ date_value.s \in WrittenForms(ymd)) =>
                /\ expired <=> DayBefore(ymd, now)
                /\ \A h \in Hours :
                      _is_expired(date_value, [now EXCEPT !.hour = h]).value
                          = expired

\* A deadline of today, checked in the afternoon, is not expired.
C8_Witness ==
    /\ pc = "checked"
    /\ date_value = Str(DateText(114, 12, 13, "/"))
    /\ now = DateTime(2025, 12, 13, 15)
    /\ expired = FALSE

-----------------------------------------------------------------------------
(* Expiry filter and hash de-duplication: DataCleaner.clean_crawler_type *)

MaxCleanLen == 3

CRAWLER_CONFIGS ==
    [ tender |-> [date_field |-> "deadline", id_field |-> "tenderId"],
      public_read |-> [date_field |-> "public_read_end", id_field |-> "tenderId"],
      promotion |-> [date_field |-> "announcementEndDate", id_field |-> "tenderId"] ]

\* The field names of the model in code point order, as sort_keys orders them.
SortedFieldNames ==
    << "announcementEndDate", "deadline", "public_read_end", "scrapedAt",
       "tenderId", "title" >>

\* json.dumps(record, sort_keys=True): the items in the order of their keys.
RECURSIVE DumpsFrom(_, _)
DumpsFrom(record, i) ==
    IF i > Len(SortedFieldNames) THEN <<>>
    ELSE IF Has(record, SortedFieldNames[i])
         THEN << Item(SortedFieldNames[i], Get(record, SortedFieldNames[i])) >>
              \o DumpsFrom(record, i + 1)
         ELSE DumpsFrom(record, i + 1)

json_dumps_sorted(record) == DumpsFrom(record, 1)

\* hashlib.md5(content).hexdigest(): distinct contents get distinct digests.
md5(content) == content

\* A hash of the content without its capture timestamps.
RecordHashIgnoringCaptureTime(record, idf) ==
    [record_id |-> GetOr(record, idf, Str(<<>>)),
     content_hash |-> md5(json_dumps_sorted(_normalized_record(record)))]

\* A hash of the id alone.
RecordHashOfIdOnly(record, idf) ==
    [record_id |-> GetOr(record, idf, Str(<<>>)), content_hash |-> <<>>]

\* _get_record_hash(record, id_field): f"{record_id}_{content_hash}"
_get_record_hash(record, idf) ==
    [record_id |-> GetOr(record, idf, Str(<<>>)),
     content_hash |-> md5(json_dumps_sorted(record))]

\* A filter with its test inverted.
ExpiredRecords(rows, date_field, clock) ==
    LET Exp(r) == _is_expired(GetOr(r, date_field, Str(<<>>)), clock)
        Keep(r) == Exp(r).value
    IN  [raised |-> \E i \in 1..Len(rows) : Exp(rows[i]).raised,
         rows |-> SelectSeq(rows, Keep)]

\* [r for r in records if not self._is_expired(r.get(date_field, ""))]
ValidRecords(rows, date_field, clock) ==
    LET Exp(r) == _is_expired(GetOr(r, date_field, Str(<<>>)), clock)
        Keep(r) == ~Exp(r).value
    IN  [raised |-> \E i \in 1..Len(rows) : Exp(rows[i]).raised,
         rows |-> SelectSeq(rows, Keep)]

\* The loop over valid_records with seen_hashes.
RECURSIVE UniqueRecords(_, _)
UniqueRecords(rows, idf) ==
    IF rows = <<>> THEN <<>>
    ELSE LET front == SubSeq(rows, 1, Len(rows) - 1)
             record == rows[Len(rows)]
             seen_hashes == {_get_record_hash(front[i], idf) : i \in 1..Len(front)}
         IN  IF _get_record_hash(record, idf) \notin seen_hashes
             THEN Append(UniqueRecords(front, idf), record)
             ELSE UniqueRecords(front, idf)

-----------------------------------------------------------------------------
(* Inputs of clean_crawler_type *)

Row(id, date_field, date, t) ==
    << Item("tenderId", id), Item(date_field, date),
       Item("scrapedAt", IsoStr(t, "")) >>

Deadline(ymd) == Str(DateText(ymd[1], ymd[2], ymd[3], "/"))

CleanRows ==
    { Row(X1, "deadline", Deadline(<<114, 12, 12>>), 1),
      Row(X1, "deadline", Deadline(<<114, 12, 12>>), 2),
      Row(X1, "deadline", Deadline(<<114, 12, 13>>), 1),
      Row(X1, "deadline", Deadline(<<114, 12, 14>>), 1),
      Row(X2, "deadline", Str(<<>>), 1),
      Row(X1, "deadline", Num(1141212), 1),
      Row(X2, "public_read_end", Deadline(<<114, 12, 12>>), 1),
      Row(X2, "announcementEndDate", Deadline(<<114, 12, 14>>), 1),
      << Item("tenderId", X2), Item("scrapedAt", IsoStr(1, "")) >>,
      << Item("deadline", Deadline(<<114, 12, 14>>)),
         Item("scrapedAt", IsoStr(1, "")) >>,
      << Item("scrapedAt", IsoStr(1, "")),
         Item("deadline", Deadline(<<114, 12, 14>>)),
         Item("tenderId", X1) >> }

CleanClocks == { DateTime(2025, 12, 13, 15), DateTime(2025, 12, 14, 0) }

InitClean ==
    /\ pc = "start"
    /\ NoFiles
    /\ records \in SeqsUpTo(CleanRows, MaxCleanLen)
    /\ now \in CleanClocks
    /\ crawler_type = ""
    /\ valid_records = <<>>
    /\ unique_records = <<>>
    /\ result = <<>>
    /\ result2 = <<>>
    /\ date_value = None
    /\ expired = FALSE

\* clean_crawler_type(crawler_type) from the loaded records to the records
\* handed to _save_batches; "error" when the expiry check raised, which
\* clean_all catches.
CleanCrawlerType ==
    /\ pc = "start"
    /\ \E ct \in DOMAIN CRAWLER_CONFIGS :
          LET config == CRAWLER_CONFIGS[ct]
              valid == ValidRecords(records, config.date_field, now)
          IN  /\ crawler_type' = ct
              /\ IF records = <<>>
                 THEN /\ pc' = "cleaned"
                      /\ valid_records' = <<>>
                      /\ unique_records' = <<>>
                 ELSE IF valid.raised
                 THEN /\ pc' = "error"
                      /\ valid_records' = <<>>
                      /\ unique_records' = <<>>
                 ELSE /\ pc' = "cleaned"
                      /\ valid_records' = valid.rows
                      /\ unique_records' = UniqueRecords(valid.rows, config.id_field)
    /\ UNCHANGED <<records, result, result2, now, date_value, expired>>
    /\ UNCHANGED fsvars

NextClean == CleanCrawlerType

SpecClean == InitClean /\ [][NextClean]_vars

\* The date value the filter reads from a row.
DateOf(r) == GetOr(r, CRAWLER_CONFIGS[crawler_type].date_field, Str(<<>>))

\* C9: when the filter returns, the records it returns are the input records
\* whose date field is not expired, in input order.
C9_FilterActive ==
    pc = "cleaned" =>
        valid_records =
            Restrict(records,
                     {i \in 1..Len(records) :
                         ~_is_expired(DateOf(records[i]), now).value})

C9_Witness ==
    /\ pc = "cleaned"
    /\ crawler_type = "tender"
    /\ Len(records) = 3
    /\ ~_is_expired(DateOf(records[1]), now).value
    /\ _is_expired(DateOf(records[2]), now).value
    /\ ~_is_expired(DateOf(records[3]), now).value
    /\ records[1] # records[3]
    /\ valid_records = <<records[1], records[3]>>

\* Two rows have the same composite key: the same fields with the same
\* values, capture timestamps included, in whatever order.
SameCompositeKey(a, b) == AsMap(a) = AsMap(b)

\* C10: the records returned by the de-duplication are the records of its
\* input that no earlier record of the input shares the composite key with,
\* in input order; the output is never longer than the input.
C10_FirstOccurrences ==
    pc = "cleaned" =>
        /\ unique_records =
              Restrict(valid_records,
                       {i \in 1..Len(valid_records) :
                           \A j \in 1..(i - 1) :
                               ~SameCompositeKey(valid_records[j],
                                                 valid_records[i])})
        /\ Len(unique_records) <= Len(valid_records)

\* A row, the same row captured later, and the first row again in another
\* item order: the first two are kept.
C10_Witness ==
    /\ pc = "cleaned"
    /\ Len(valid_records) = 3
    /\ SameCompositeKey(valid_records[1], valid_records[3])
    /\ valid_records[1] # valid_records[3]
    /\ Get(valid_records[1], "tenderId") = Get(valid_records[2], "tenderId")
    /\ unique_records = <<valid_records[1], valid_records[2]>>

\* C30: the expiry filter and the de-duplication commute: the records
\* clean_crawler_type hands to the batch writer, filtered and then
\* de-duplicated, are the records that de-duplicating first and filtering
\* afterwards gives, in the same order; and the filter raises on the one
\* list exactly if it raises on the other.
C30_FilterDedupCommute ==
    LET config == CRAWLER_CONFIGS[crawler_type]
        deduped == UniqueRecords(records, config.id_field)
        filtered == ValidRecords(deduped, config.date_field, now)
    IN  /\ pc = "cleaned" /\ records # <<>> =>
              /\ ~filtered.raised
              /\ unique_records = filtered.rows
        /\ pc = "error" => filtered.raised

\* An expired record, an open record and the open record once more: each
\* step removes one record.
C30_Witness ==
    /\ pc = "cleaned"
    /\ Len(records) = 3
    /\ Len(valid_records) = 2
    /\ Len(unique_records) = 1
    /\ Len(UniqueRecords(records, CRAWLER_CONFIGS[crawler_type].id_field)) = 2
    /\ Get(records[1], "tenderId") = Get(records[2], "tenderId")
    /\ _is_expired(DateOf(records[1]), now).value

-----------------------------------------------------------------------------
(* File names *)

\* s.startswith(p), s.endswith(p), sub in s
StartsWith(s, p) == Len(s) >= Len(p) /\ SubSeq(s, 1, Len(p)) = p

EndsWith(s, p) ==
    Len(s) >= Len(p) /\ SubSeq(s, Len(s) - Len(p) + 1, Len(s)) = p

Contains(s, sub) ==
    \E i \in 1..(Len(s) - Len(sub) + 1) : SubSeq(s, i, i + Len(sub) - 1) = sub

\* A glob pattern "<head>*<tail>" as [head, tail]; Path.glob matches a name
\* that begins with head and ends with tail without the two overlapping.
Pattern(head, tail) == [head |-> head, tail |-> tail]

GlobMatch(name, pattern) ==
    /\ Len(name) >= Len(pattern.head) + Len(pattern.tail)
    /\ StartsWith(name, pattern.head)
    /\ EndsWith(name, pattern.tail)

JsonSuffix == <<".", "j", "s", "o", "n">>

\* str < str on file names
NameLess(a, b) == StrLess(a, b)

FourDigits(n) == TwoDigits(n \div 100) \o TwoDigits(n % 100)

\* clock.strftime("%Y%m%d")
strftime(clock) ==
    FourDigits(clock.year) \o TwoDigits(clock.month) \o TwoDigits(clock.day)

-----------------------------------------------------------------------------
(* The data directory *)

ARCHIVE_DIR_NAME == "_archive"

\* A path below the data directory: the names of the directories from the
\* data directory down to the file, and the file's name.
Path(parent, name) == [parent |-> parent, name |-> name]

DataDir == <<>>

ArchiveDir == <<ARCHIVE_DIR_NAME>>

\* What json.load makes of a file:
\*   "invalid"    JSONDecodeError
\*   "list"       a top-level array, rows its elements
\*   "data_list"  an object whose "data" holds an array, rows its elements
\*   "data_dict"  an object whose "data" holds an object of arrays,
\*                groups its [k, rows] items
\*   "data_other" an object whose "data" holds neither
\*   "object"     an object without "data"
\*   "scalar"     a number
\* meta holds the other items of the payload _save_batches writes.
NoMeta ==
    [crawlerId |-> "", mergedAt |-> NoClock, batchNumber |-> 0,
     totalBatches |-> 0, totalRecords |-> 0]

Content(shape, rows, groups, meta) ==
    [shape |-> shape, rows |-> rows, groups |-> groups, meta |-> meta]

Invalid == Content("invalid", <<>>, <<>>, NoMeta)

File(content, mtime) == [content |-> content, mtime |-> mtime]

\* open(path, "w") and json.dump
WriteFile(d, p, f) == [q \in DOMAIN d \cup {p} |-> IF q = p THEN f ELSE d[q]]

\* path.unlink()
RemoveFile(d, p) == [q \in DOMAIN d \ {p} |-> d[q]]

\* shutil.move(p, q): a rename, the modification time stays
MoveFile(d, p, q) ==
    [r \in (DOMAIN d \ {p}) \cup {q} |-> IF r = q THEN d[p] ELSE d[r]]

Min(a, b) == IF a <= b THEN a ELSE b

\* The day after the clock's day.
NextDay(clock) ==
    IF clock.day < DaysInMonth(clock.year, clock.month)
    THEN [clock EXCEPT !.day = clock.day + 1]
    ELSE IF clock.month < 12
    THEN [clock EXCEPT !.month = clock.month + 1, !.day = 1]
    ELSE [clock EXCEPT !.year = clock.year + 1, !.month = 1, !.day = 1]

-----------------------------------------------------------------------------
(* DataCleaner._save_batches *)

\* batch_size, 1000 in the code
BatchSize == 2

MaxBatchLen == 5

MaxRuns == 2

\* The order of the crawler types in CRAWLER_CONFIGS.
crawler_types == << "tender", "public_read", "promotion" >>

\* CRAWLER_CONFIGS[crawler_type]["file_pattern"]
file_pattern ==
    [tender |-> Pattern(<<"t", "e", "n", "d", "e", "r", "_", "a", "n", "n", "o", "u", "n", "c", "e", "m", "e", "n", "t", "_">>, JsonSuffix),
     public_read |-> Pattern(<<"p", "u", "b", "l", "i", "c", "_", "r", "e", "a", "d", "_">>, JsonSuffix),
     promotion |-> Pattern(<<"p", "r", "o", "c", "u", "r", "e", "m", "e", "n", "t", "_">>, JsonSuffix)]

\* CRAWLER_CONFIGS[crawler_type]["crawler_id"]
crawler_id ==
    [tender |-> "tender-announcement",
     public_read |-> "public-read",
     promotion |-> "ppp-mof"]

\* CRAWLER_CONFIGS[crawler_type]["output_prefix"]
output_prefix ==
    [tender |-> <<"t", "e", "n", "d", "e", "r", "_", "m", "e", "r", "g", "e", "d">>,
     public_read |-> <<"p", "u", "b", "l", "i", "c", "_", "r", "e", "a", "d", "_", "m", "e", "r", "g", "e", "d">>,
     promotion |-> <<"p", "r", "o", "m", "o", "t", "i", "o", "n", "_", "m", "e", "r", "g", "e", "d">>]

\* f"{prefix}_{timestamp}_batch{i + 1:03d}.json"
BatchFileName(prefix, timestamp, i) ==
    prefix \o <<"_">> \o timestamp \o <<"_", "b", "a", "t", "c", "h">> \o ThreeDigits(i + 1)
        \o JsonSuffix

\* What the filesystem does to the writes of one call: at = 0, every write
\* succeeds; otherwise the write of batch number at raises, after open() has
\* truncated the file (partial) or before it touched it.
NoFailure == [at |-> 0, partial |-> FALSE]

WriteFailures(n) ==
    {NoFailure} \cup [at : 1..n, partial : BOOLEAN]

\* The loop of _save_batches from index i on; d the directory and w the paths
\* written so far.
RECURSIVE SaveBatchesFrom(_, _, _, _, _, _, _, _, _)
SaveBatchesFrom(d, w, recs, prefix, cid, batch_size, clock, i, fail) ==
    LET total_batches == (Len(recs) + batch_size - 1) \div batch_size
        start == i * batch_size
        end == Min((i + 1) * batch_size, Len(recs))
        batch_records == SubSeq(recs, start + 1, end)
        filename == BatchFileName(prefix, strftime(clock), i)
        filepath == Path(DataDir, filename)
        payload ==
            Content("data_list", batch_records, <<>>,
                    [crawlerId |-> cid, mergedAt |-> clock,
                     batchNumber |-> i + 1, totalBatches |-> total_batches,
                     totalRecords |-> Len(batch_records)])
    IN  IF i >= total_batches
        THEN [disk |-> d, written |-> w, failed |-> {}, raised |-> FALSE,
              value |-> total_batches]
        ELSE IF fail.at = i + 1
        THEN [disk |-> IF fail.partial
                       THEN WriteFile(d, filepath, File(Invalid, clock))
                       ELSE d,
              written |-> w, failed |-> {filepath}, raised |-> TRUE,
              value |-> 0]
        ELSE SaveBatchesFrom(WriteFile(d, filepath, File(payload, clock)),
                             Append(w, filepath), recs, prefix, cid,
                             batch_size, clock, i + 1, fail)

\* A batch writer that restores the directory when a write fails.
SaveBatchesRollingBack(d, recs, prefix, cid, batch_size, clock, fail) ==
    LET r == SaveBatchesFrom(d, <<>>, recs, prefix, cid, batch_size, clock,
                             0, fail)
    IN  IF r.raised THEN [r EXCEPT !.disk = d] ELSE r

\* A batch writer that drops the records after the last full batch.
SaveBatchesDroppingRemainder(d, recs, prefix, cid, batch_size, clock, fail) ==
    SaveBatchesFrom(d, <<>>,
                    SubSeq(recs, 1, (Len(recs) \div batch_size) * batch_size),
                    prefix, cid, batch_size, clock, 0, fail)

_save_batches(d, recs, prefix, cid, batch_size, clock, fail) ==
    IF recs = <<>>
    THEN [disk |-> d, written |-> <<>>, failed |-> {}, raised |-> FALSE,
          value |-> 0]
    ELSE SaveBatchesFrom(d, <<>>, recs, prefix, cid, batch_size, clock, 0,
                         fail)

\* The records handed to the batch writer: n records, each unlike the others.
BatchRow(i) == << Item("tenderId", Str(<<"X", DigitChar(i)>>)) >>

BatchRecords(n) == [i \in 1..n |-> BatchRow(i)]

BatchInputs == { BatchRecords(n) : n \in 0..MaxBatchLen }

BatchClock == DateTime(2024, 1, 31, 15)

reducervars == <<result, result2, date_value, expired, valid_records,
                 unique_records>>

NoReducer ==
    /\ result = <<>>
    /\ result2 = <<>>
    /\ date_value = None
    /\ expired = FALSE
    /\ valid_records = <<>>
    /\ unique_records = <<>>

InitBatch ==
    /\ pc = "start"
    /\ records \in BatchInputs
    /\ crawler_type \in DOMAIN CRAWLER_CONFIGS
    /\ now = BatchClock
    /\ disk = <<>>
    /\ disk0 = <<>>
    /\ written = <<>>
    /\ ready = {}
    /\ failed = {}
    /\ run = 1
    /\ history = NoHistory
    /\ NoReducer

\* One call of _save_batches(records, output_prefix, crawler_id).
SaveBatches ==
    /\ pc = "start"
    /\ \E fail \in WriteFailures((Len(records) + BatchSize - 1) \div BatchSize) :
          LET r == _save_batches(disk, records, output_prefix[crawler_type],
                                 crawler_id[crawler_type], BatchSize, now,
                                 fail)
          IN  /\ disk0' = disk
              /\ disk' = r.disk
              /\ written' = r.written
              /\ failed' = r.failed
              /\ pc' = IF r.raised THEN "raised" ELSE "saved"
    /\ UNCHANGED <<records, crawler_type, now, ready, run>>
    /\ UNCHANGED reducervars
    /\ UNCHANGED history

\* The next scheduled run, on the same day or on the day after, hands the
\* batch writer the records it has then.
NextBatchRun ==
    /\ pc \in {"saved", "raised"}
    /\ run < MaxRuns
    /\ run' = run + 1
    /\ pc' = "start"
    /\ records' \in BatchInputs
    /\ now' \in {now, NextDay(now)}
    /\ disk0' = disk
    /\ written' = <<>>
    /\ failed' = {}
    /\ UNCHANGED <<crawler_type, disk, ready>>
    /\ UNCHANGED reducervars
    /\ UNCHANGED history

NextBatch == SaveBatches \/ NextBatchRun

SpecBatch == InitBatch /\ [][NextBatch]_vars

\* The batch number b of the call holds these records of the input.
BatchOf(recs, b) ==
    SubSeq(recs, (b - 1) * BatchSize + 1, Min(b * BatchSize, Len(recs)))

\* The rows of the files written, one after the other.
RECURSIVE RowsWritten(_)
RowsWritten(i) ==
    IF i > Len(written) THEN <<>>
    ELSE disk[written[i]].content.rows \o RowsWritten(i + 1)

\* The least number of batches of at most BatchSize records that hold n.
CeilDiv(n) == CHOOSE k \in 0..n : k * BatchSize >= n /\ (k = 0 \/ (k - 1) * BatchSize < n)

\* C11: the batch writer cuts the record list into batches in order: the
\* files written, read in batch order, give back the list; every batch but
\* the last holds BatchSize records and the last between 1 and BatchSize;
\* there are ceil(n / BatchSize) files, each its own.
C11_ContiguousBatches ==
    pc = "saved" =>
        /\ RowsWritten(1) = records
        /\ \A i \in 1..Len(written) :
              LET size == Len(disk[written[i]].content.rows)
              IN  /\ i < Len(written) => size = BatchSize
                  /\ i = Len(written) => size >= 1 /\ size <= BatchSize
                  /\ disk[written[i]].content.meta.batchNumber = i
        /\ Len(written) = CeilDiv(Len(records))
        /\ Cardinality({written[i] : i \in 1..Len(written)}) = Len(written)

\* Two full batches and a last one that is not full, as 2500 records in
\* batches of 1000 give 1000, 1000 and 500.
C11_Witness ==
    /\ pc = "saved"
    /\ Len(records) = 2 * BatchSize + 1
    /\ Len(written) = 3
    /\ Len(disk[written[1]].content.rows) = BatchSize
    /\ Len(disk[written[2]].content.rows) = BatchSize
    /\ Len(disk[written[3]].content.rows) = 1

\* C12: the file names of one call differ from one another, and no call
\* writes to a name that was in the directory when it began, the directory
\* then holding only what earlier runs wrote.
C12_UniqueFilenames ==
    pc \in {"saved", "raised"} =>
        /\ Cardinality({written[i] : i \in 1..Len(written)}) = Len(written)
        /\ \A i \in 1..Len(written) : written[i] \notin DOMAIN disk0

\* C13: when a write fails the call raises; the batches it wrote before are
\* in the directory as written, and every other file but the one whose write
\* failed is as it was when the call began.
C13_NoRollback ==
    /\ failed # {} => pc = "raised"
    /\ pc = "raised" =>
          /\ \A i \in 1..Len(written) :
                /\ written[i] \in DOMAIN disk
                /\ disk[written[i]].content.rows = BatchOf(records, i)
                /\ disk[written[i]].content.shape = "data_list"
          /\ \A p \in (DOMAIN disk \cup DOMAIN disk0)
                        \ ({written[i] : i \in 1..Len(written)} \cup failed) :
                /\ p \in DOMAIN disk
                /\ p \in DOMAIN disk0
                /\ disk[p] = disk0[p]

\* The write of the second batch of three fails: the first batch is in the
\* directory, the third, which an earlier run left, is as that run wrote it.
C13_Witness ==
    /\ pc = "raised"
    /\ Len(written) = 1
    /\ Len(records) > 2 * BatchSize
    /\ \E p \in DOMAIN disk0 \ failed :
          /\ disk0[p].content.meta.batchNumber = 3
          /\ p \in DOMAIN disk
          /\ disk0[p].mtime.day = now.day

-----------------------------------------------------------------------------
(* The merge run of src/google雲端中的爬蟲/data_cleaner.py *)

DAYS_TO_KEEP_ARCHIVES == 30

CrawlerConfig(name, pattern, prefix) ==
    [name |-> name, file_pattern |-> pattern, merged_prefix |-> prefix,
     id_field |-> "tenderId"]

\* CRAWLER_CONFIGS of the merge run, in list order.
CLOUD_CRAWLER_CONFIGS ==
    << CrawlerConfig("tender", Pattern(<<"t", "e", "n", "d", "e", "r", "_", "b", "a", "t", "c", "h", "_">>, JsonSuffix),
                     <<"t", "e", "n", "d", "e", "r", "_", "m", "e", "r", "g", "e", "d">>),
       CrawlerConfig("promotion",
                     Pattern(<<"p", "r", "o", "c", "u", "r", "e", "m", "e", "n", "t", "_", "d", "a", "t", "a", "_", "d", "e", "t", "a", "i", "l", "e", "d", "_">>, JsonSuffix),
                     <<"p", "r", "o", "m", "o", "t", "i", "o", "n", "_", "m", "e", "r", "g", "e", "d">>),
       CrawlerConfig("public_read", Pattern(<<"p", "u", "b", "l", "i", "c", "_", "r", "e", "a", "d", "_", "2">>, JsonSuffix),
                     <<"p", "u", "b", "l", "i", "c", "_", "r", "e", "a", "d", "_", "m", "e", "r", "g", "e", "d">>) >>

\* base_dir.glob(pattern): the files of the directory whose name matches
Glob(d, parent, pattern) ==
    {p \in DOMAIN d : p.parent = parent /\ GlobMatch(p.name, pattern)}

\* sorted(paths) for paths of one directory
RECURSIVE SortedPaths(_)
SortedPaths(S) ==
    IF S = {} THEN <<>>
    ELSE LET least == CHOOSE p \in S :
                          \A q \in S \ {p} : NameLess(p.name, q.name)
         IN  <<least>> \o SortedPaths(S \ {least})

\* _load_json(path) of the file's content: the rows, or the exception
_load_json(content) ==
    CASE content.shape = "invalid" -> [raised |-> TRUE, rows |-> <<>>]
      [] content.shape = "list" -> [raised |-> FALSE, rows |-> content.rows]
      [] content.shape = "data_list" ->
            [raised |-> FALSE, rows |-> content.rows]
      [] OTHER -> [raised |-> TRUE, rows |-> <<>>]

\* A loader that gives up at the first file it cannot load.
RECURSIVE LoadUntilBroken(_, _, _)
LoadUntilBroken(d, paths, i) ==
    IF i > Len(paths) THEN <<>>
    ELSE LET loaded == _load_json(d[paths[i]].content)
         IN  IF loaded.raised THEN <<>>
             ELSE loaded.rows \o LoadUntilBroken(d, paths, i + 1)

\* for path in paths: try rows.extend(_load_json(path)) except: continue
RECURSIVE LoadEach(_, _, _)
LoadEach(d, paths, i) ==
    IF i > Len(paths) THEN <<>>
    ELSE LET loaded == _load_json(d[paths[i]].content)
         IN  (IF loaded.raised THEN <<>> ELSE loaded.rows)
                 \o LoadEach(d, paths, i + 1)

MergedPattern(cfg) == Pattern(cfg.merged_prefix \o <<"_">>, JsonSuffix)

_load_previous_merged_records(d, cfg) ==
    LET merged_files == SortedPaths(Glob(d, DataDir, MergedPattern(cfg)))
    IN  [rows |-> LoadEach(d, merged_files, 1), merged_files |-> merged_files]

_load_raw_crawler_records(d, cfg) ==
    LoadEach(d, SortedPaths(Glob(d, DataDir, cfg.file_pattern)), 1)

\* Moves that stop at the first one the filesystem refuses.
RECURSIVE ArchiveUntilRefused(_, _, _, _)
ArchiveUntilRefused(d, to_archive, i, failing) ==
    IF i > Len(to_archive) \/ to_archive[i] \in failing THEN d
    ELSE ArchiveUntilRefused(
             MoveFile(d, to_archive[i],
                      Path(to_archive[i].parent \o <<ARCHIVE_DIR_NAME>>,
                           to_archive[i].name)),
             to_archive, i + 1, failing)

\* The moves of archive_old_merged_files, one path after the other; the
\* filesystem refuses the moves of the paths in failing.
RECURSIVE ArchiveEach(_, _, _, _)
ArchiveEach(d, to_archive, i, failing) ==
    IF i > Len(to_archive) THEN d
    ELSE LET path == to_archive[i]
             target == Path(path.parent \o <<ARCHIVE_DIR_NAME>>, path.name)
         IN  ArchiveEach(IF path \in failing THEN d
                         ELSE MoveFile(d, path, target),
                         to_archive, i + 1, failing)

\* A rotation that keeps the first file of the list, the oldest.
ArchiveAllButOldest(d, existing_merged_files, failing) ==
    IF existing_merged_files = <<>> THEN d
    ELSE LET sorted == SortedPaths({existing_merged_files[i] :
                                       i \in 1..Len(existing_merged_files)})
         IN  ArchiveEach(d, Tail(sorted), 1, failing)

archive_old_merged_files(d, existing_merged_files, failing) ==
    IF existing_merged_files = <<>> THEN d
    ELSE LET sorted == SortedPaths({existing_merged_files[i] :
                                       i \in 1..Len(existing_merged_files)})
             to_archive == SubSeq(sorted, 1, Len(sorted) - 1)
         IN  ArchiveEach(d, to_archive, 1, failing)

\* _dump_json(path, rows): fail = "no", the file is written; "open", open()
\* raises and the file is untouched; "dump", the write raises after open()
\* has truncated the file.
_dump_json(d, path, rows, clock, fail) ==
    CASE fail = "no" ->
            [raised |-> FALSE,
             disk |-> WriteFile(d, path,
                                File(Content("list", rows, <<>>, NoMeta),
                                     clock))]
      [] fail = "open" -> [raised |-> TRUE, disk |-> d]
      [] OTHER ->
            [raised |-> TRUE, disk |-> WriteFile(d, path, File(Invalid, clock))]

\* What the filesystem does to one process_crawler call.
Env(write, moves) == [write |-> write, moves |-> moves]

\* The files a call would try to move: all the merged files but the last.
ToArchive(d, cfg) ==
    LET merged_files == _load_previous_merged_records(d, cfg).merged_files
    IN  {merged_files[i] : i \in 1..(Len(merged_files) - 1)}

Envs(d, cfg) ==
    { Env(w, m) : w \in {"no", "open", "dump"}, m \in SUBSET ToArchive(d, cfg) }

OutputPath(cfg, clock) ==
    Path(DataDir, cfg.merged_prefix \o <<"_">> \o strftime(clock) \o JsonSuffix)

\* A process_crawler that goes on when it has loaded no row.
ProcessCrawlerWithoutRows(d, cfg, clock, env) ==
    LET previous == _load_previous_merged_records(d, cfg)
        all_rows == previous.rows \o _load_raw_crawler_records(d, cfg)
        cleaned == keep_only_changed_versions(all_rows, cfg.id_field)
        output_path == OutputPath(cfg, clock)
        dumped == _dump_json(d, output_path, cleaned.rows, clock, env.write)
    IN  IF cleaned.raised \/ dumped.raised
        THEN [disk |-> d, raised |-> TRUE, loaded |-> all_rows,
              written |-> <<>>, failed |-> {}]
        ELSE [disk |-> archive_old_merged_files(dumped.disk,
                                                previous.merged_files,
                                                env.moves),
              raised |-> FALSE, loaded |-> all_rows,
              written |-> <<output_path>>, failed |-> env.moves]

process_crawler(d, cfg, clock, env) ==
    LET previous == _load_previous_merged_records(d, cfg)
        raw_rows == _load_raw_crawler_records(d, cfg)
        all_rows == previous.rows \o raw_rows
        cleaned == keep_only_changed_versions(all_rows, cfg.id_field)
        output_path == OutputPath(cfg, clock)
        dumped == _dump_json(d, output_path, cleaned.rows, clock, env.write)
    IN  IF all_rows = <<>>
        THEN [disk |-> d, raised |-> FALSE, loaded |-> all_rows,
              written |-> <<>>, failed |-> {}]
        ELSE IF cleaned.raised
        THEN [disk |-> d, raised |-> TRUE, loaded |-> all_rows,
              written |-> <<>>, failed |-> {}]
        ELSE IF dumped.raised
        THEN [disk |-> dumped.disk, raised |-> TRUE, loaded |-> all_rows,
              written |-> <<>>, failed |-> {output_path}]
        ELSE [disk |-> archive_old_merged_files(dumped.disk,
                                                previous.merged_files,
                                                env.moves),
              raised |-> FALSE, loaded |-> all_rows,
              written |-> <<output_path>>, failed |-> env.moves]

-----------------------------------------------------------------------------
(* archive_old_merged_files applied to the merged files of a directory *)

CloudConfigOf(name) ==
    CLOUD_CRAWLER_CONFIGS[CHOOSE i \in 1..Len(CLOUD_CRAWLER_CONFIGS) :
                              CLOUD_CRAWLER_CONFIGS[i].name = name]

CloudNames == {CLOUD_CRAWLER_CONFIGS[i].name : i \in 1..Len(CLOUD_CRAWLER_CONFIGS)}

\* The merged file process_crawler writes for the dataset on a day, holding
\* one row captured that day.
MergedName(name, day) == OutputPath(CloudConfigOf(name), day).name

MergedFile(day) ==
    File(Content("list", << Rec(X1, IsoStr(day.day, ""), TitleA) >>, <<>>, NoMeta), day)

RotateDays ==
    { DateTime(2024, 1, 1, 3), DateTime(2024, 1, 15, 3),
      DateTime(2024, 2, 1, 3) }

\* A directory: merged files of the tender dataset written on some of the
\* days, perhaps a merged file of another dataset, perhaps an older file
\* in the archive under the name of the first.
RotateDisk(days, other, archived) ==
    LET primary == {Path(DataDir, MergedName("tender", day)) : day \in days}
        others == IF other
                  THEN {Path(DataDir,
                             MergedName("promotion", DateTime(2024, 1, 1, 3)))}
                  ELSE {}
        archive == IF archived
                   THEN {Path(ArchiveDir,
                              MergedName("tender", DateTime(2024, 1, 1, 3)))}
                   ELSE {}
        DayOf(p) == CHOOSE day \in RotateDays :
                        p.name = MergedName("tender", day)
    IN  [p \in primary \cup others \cup archive |->
            IF p \in primary THEN MergedFile(DayOf(p))
            ELSE MergedFile(DateTime(2023, 12, 1, 3))]

RotateDisks ==
    { RotateDisk(days, other, archived) :
          days \in SUBSET RotateDays, other \in BOOLEAN, archived \in BOOLEAN }

InitRotate ==
    /\ pc = "start"
    /\ crawler_type \in CloudNames
    /\ disk \in RotateDisks
    /\ disk0 = disk
    /\ now = DateTime(2024, 2, 2, 3)
    /\ records = <<>>
    /\ written = <<>>
    /\ ready = {}
    /\ failed = {}
    /\ run = 1
    /\ history = NoHistory
    /\ NoReducer

\* archive_old_merged_files(cfg, existing_merged_files) with the list that
\* _load_previous_merged_records returns.
ArchiveOldMergedFiles ==
    /\ pc = "start"
    /\ LET cfg == CloudConfigOf(crawler_type)
           existing == _load_previous_merged_records(disk, cfg).merged_files
       IN  \E failing \in SUBSET ToArchive(disk, cfg) :
              /\ disk' = archive_old_merged_files(disk, existing, failing)
              /\ failed' = failing
    /\ disk0' = disk
    /\ pc' = "rotated"
    /\ UNCHANGED <<records, crawler_type, now, written, ready, run>>
    /\ UNCHANGED reducervars
    /\ UNCHANGED history

NextRotate == ArchiveOldMergedFiles

SpecRotate == InitRotate /\ [][NextRotate]_vars

\* The merged files of the dataset in the primary directory of d.
MergedFilesOf(d, name) ==
    {p \in DOMAIN d :
        /\ p.parent = DataDir
        /\ StartsWith(p.name, CloudConfigOf(name).merged_prefix \o <<"_">>)
        /\ EndsWith(p.name, JsonSuffix)
        /\ Len(p.name) >= Len(CloudConfigOf(name).merged_prefix) + 6}

\* The file of the set with the greatest name.
Greatest(S) == CHOOSE p \in S : \A q \in S : ~StrLess(p.name, q.name)

Archived(p) == Path(<<"_archive">>, p.name)

\* C15: rotation leaves the merged file with the greatest name where it is
\* and moves every other merged file that was there, unless the filesystem
\* refused the move, into _archive/ under its name; with no merged file it
\* changes nothing.
C15_KeepsGreatest ==
    pc = "rotated" =>
        LET existing == MergedFilesOf(disk0, crawler_type)
        IN  /\ existing = {} => disk = disk0
            /\ existing # {} =>
                  /\ Greatest(existing) \in DOMAIN disk
                  /\ disk[Greatest(existing)] = disk0[Greatest(existing)]
                  /\ \A p \in existing \ ({Greatest(existing)} \cup failed) :
                        /\ p \notin DOMAIN disk
                        /\ Archived(p) \in DOMAIN disk
                        /\ disk[Archived(p)] = disk0[p]

\* Merged files of 20240101, 20240115 and 20240201: the last stays, the
\* other two are in the archive.
C15_Witness ==
    /\ pc = "rotated"
    /\ crawler_type = "tender"
    /\ failed = {}
    /\ MergedFilesOf(disk0, "tender") =
          {Path(DataDir, MergedName("tender", day)) : day \in RotateDays}
    /\ MergedFilesOf(disk, "tender") =
          {Path(DataDir, MergedName("tender", DateTime(2024, 2, 1, 3)))}
    /\ \A day \in {DateTime(2024, 1, 1, 3), DateTime(2024, 1, 15, 3)} :
          /\ Path(ArchiveDir, MergedName("tender", day)) \in DOMAIN disk
          /\ disk[Path(ArchiveDir, MergedName("tender", day))] = MergedFile(day)

-----------------------------------------------------------------------------
(* cleanup_old_archives *)

\* date.toordinal(): the days from 0001-01-01 to the day, that day counted
DaysBeforeYear(y) ==
    (y - 1) * 365 + (y - 1) \div 4 - (y - 1) \div 100 + (y - 1) \div 400

RECURSIVE DaysBeforeMonth(_, _)
DaysBeforeMonth(y, m) ==
    IF m = 1 THEN 0 ELSE DaysBeforeMonth(y, m - 1) + DaysInMonth(y, m - 1)

toordinal(clock) ==
    DaysBeforeYear(clock.year) + DaysBeforeMonth(clock.year, clock.month)
        + clock.day

HoursOf(clock) == toordinal(clock) * 24 + clock.hour

\* mtime < clock - timedelta(days=days)
BeforeCutoff(mtime, clock, days) ==
    HoursOf(mtime) < HoursOf(clock) - days * 24

\* What the filesystem does to one cleanup: the paths whose stat() raises
\* and the paths whose unlink() raises.
PruneEnv(stat, unlink) == [stat |-> stat, unlink |-> unlink]

\* base_dir.rglob("*.json") with path.parent.name == ARCHIVE_DIR_NAME
ArchiveJsonFiles(d) ==
    {p \in DOMAIN d :
        /\ EndsWith(p.name, JsonSuffix)
        /\ p.parent # <<>>
        /\ p.parent[Len(p.parent)] = ARCHIVE_DIR_NAME}

PruneEnvs(d) ==
    { PruneEnv(s, u) : s \in SUBSET ArchiveJsonFiles(d),
                       u \in SUBSET ArchiveJsonFiles(d) }

\* A cleanup that looks at the age of a file and not at its directory.
CleanupEveryDirectory(d, clock, days, env) ==
    LET removed == {p \in DOMAIN d :
                       /\ EndsWith(p.name, JsonSuffix)
                       /\ p \notin env.stat
                       /\ BeforeCutoff(d[p].mtime, clock, days)
                       /\ p \notin env.unlink}
    IN  [disk |-> [p \in DOMAIN d \ removed |-> d[p]], failed |-> {}]

cleanup_old_archives(d, clock, days, env) ==
    LET past == {p \in ArchiveJsonFiles(d) \ env.stat :
                    BeforeCutoff(d[p].mtime, clock, days)}
        removed == past \ env.unlink
    IN  [disk |-> [p \in DOMAIN d \ removed |-> d[p]],
         failed |-> (ArchiveJsonFiles(d) \cap env.stat)
                        \cup (past \cap env.unlink)]

PruneClock == DateTime(2024, 3, 16, 15)

\* 45 days before the clock, 30 days and an hour, 30 days to the hour, 10 days
PruneTimes ==
    { DateTime(2024, 1, 31, 15), DateTime(2024, 2, 15, 14),
      DateTime(2024, 2, 15, 15), DateTime(2024, 3, 6, 15) }

\* The directories of the prune: a merged file archived from the base
\* directory, one archived from a crawler's own directory, and merged files
\* old enough to go that are not in an archive.
PruneCandidates ==
    << Path(ArchiveDir, MergedName("tender", DateTime(2024, 1, 31, 15))),
       Path(<<"promotion", ARCHIVE_DIR_NAME>>,
            MergedName("promotion", DateTime(2024, 1, 31, 15))),
       Path(DataDir, MergedName("tender", DateTime(2024, 1, 31, 15))),
       Path(<<"promotion">>,
            MergedName("promotion", DateTime(2024, 1, 31, 15))) >>

PruneDisks ==
    { [p \in {PruneCandidates[i] : i \in here} |->
          File(Content("list", << Rec(X1, IsoStr(1, ""), TitleA) >>, <<>>,
                       NoMeta),
               IF p = PruneCandidates[1] THEN t1
               ELSE IF p = PruneCandidates[2] THEN t2
               ELSE DateTime(2024, 1, 31, 15))] :
        here \in SUBSET (1..Len(PruneCandidates)),
        t1 \in PruneTimes, t2 \in PruneTimes }

InitPrune ==
    /\ pc = "start"
    /\ disk \in PruneDisks
    /\ disk0 = disk
    /\ now = PruneClock
    /\ crawler_type = ""
    /\ records = <<>>
    /\ written = <<>>
    /\ ready = {}
    /\ failed = {}
    /\ run = 1
    /\ history = NoHistory
    /\ NoReducer

\* cleanup_old_archives(BASE_DIR, days=DAYS_TO_KEEP_ARCHIVES)
CleanupOldArchives ==
    /\ pc = "start"
    /\ \E env \in PruneEnvs(disk) :
          LET r == cleanup_old_archives(disk, now, DAYS_TO_KEEP_ARCHIVES, env)
          IN  /\ disk' = r.disk
              /\ failed' = r.failed
    /\ disk0' = disk
    /\ pc' = "pruned"
    /\ UNCHANGED <<records, crawler_type, now, written, ready, run>>
    /\ UNCHANGED reducervars
    /\ UNCHANGED history

\* The same again, at once.
CleanupOldArchivesAgain ==
    /\ pc = "pruned"
    /\ \E env \in PruneEnvs(disk) :
          LET r == cleanup_old_archives(disk, now, DAYS_TO_KEEP_ARCHIVES, env)
          IN  /\ disk' = r.disk
              /\ failed' = failed \cup r.failed
    /\ disk0' = disk
    /\ pc' = "pruned again"
    /\ UNCHANGED <<records, crawler_type, now, written, ready, run>>
    /\ UNCHANGED reducervars
    /\ UNCHANGED history

NextPrune == CleanupOldArchives \/ CleanupOldArchivesAgain

SpecPrune == InitPrune /\ [][NextPrune]_vars

\* The file lies in an archive directory.
InArchive(p) == \E i \in 1..Len(p.parent) : p.parent[i] = "_archive"

\* The day before the clock's day, and the clock n days back.
DayBack(clock) ==
    IF clock.day > 1 THEN [clock EXCEPT !.day = clock.day - 1]
    ELSE IF clock.month > 1
    THEN [clock EXCEPT !.month = clock.month - 1,
                       !.day = DaysInMonth(clock.year, clock.month - 1)]
    ELSE [clock EXCEPT !.year = clock.year - 1, !.month = 12, !.day = 31]

RECURSIVE DaysBack(_, _)
DaysBack(clock, n) == IF n = 0 THEN clock ELSE DaysBack(DayBack(clock), n - 1)

\* The file was last modified more than the retention before now.
PastRetention(f) == DateTimeLess(f.mtime, DaysBack(now, 30))

\* C16: a prune deletes the files that lie in an archive directory and were
\* last modified more than 30 days before now, and no other file: every
\* file the filesystem let it stat and delete is gone exactly if it is such
\* a file, every file outside the archive is there as it was, and a second
\* prune at once deletes nothing the first one could delete.
C16_PruneIffOldArchive ==
    /\ pc = "pruned" =>
          /\ \A p \in DOMAIN disk0 \ failed :
                p \notin DOMAIN disk <=> InArchive(p) /\ PastRetention(disk0[p])
          /\ \A p \in failed : InArchive(p)
          /\ \A p \in DOMAIN disk : p \in DOMAIN disk0 /\ disk[p] = disk0[p]
    /\ pc = "pruned again" =>
          /\ \A p \in DOMAIN disk0 \ DOMAIN disk : p \in failed
          /\ \A p \in DOMAIN disk : p \in DOMAIN disk0 /\ disk[p] = disk0[p]

\* An archived file 45 days old is deleted, one 10 days old is kept, and so
\* is a file as old outside the archive.
C16_Witness ==
    /\ pc = "pruned"
    /\ failed = {}
    /\ DOMAIN disk0 = {PruneCandidates[i] : i \in 1..3}
    /\ disk0[PruneCandidates[1]].mtime = DaysBack(now, 45)
    /\ disk0[PruneCandidates[2]].mtime = DaysBack(now, 10)
    /\ disk0[PruneCandidates[3]].mtime = DaysBack(now, 45)
    /\ DOMAIN disk = {PruneCandidates[2], PruneCandidates[3]}

-----------------------------------------------------------------------------
(* main() of the merge run: process_crawler for each dataset, then the
   cleanup of the archives; run after run *)

MergeClock == DateTime(2024, 1, 31, 15)

RawPath == Path(DataDir, <<"t", "e", "n", "d", "e", "r", "_", "b", "a", "t", "c", "h", "_", "1", ".", "j", "s", "o", "n">>)

\* What the scraper leaves in its output file.
RawContents ==
    { Content("list", << Rec(X1, IsoStr(1, ""), TitleA) >>, <<>>, NoMeta),
      Content("data_list",
              << Rec(X1, IsoStr(1, ""), TitleA),
                 Rec(X1, IsoStr(2, ""), TitleB) >>,
              <<>>, NoMeta),
      Invalid }

\* A dataset that has nothing to load: a raw file that is no JSON beside a
\* merged file that holds no row.
IdlePromotion ==
    [p \in { Path(DataDir, <<"p", "r", "o", "c", "u", "r", "e", "m", "e", "n", "t", "_", "d", "a", "t", "a", "_", "d", "e", "t", "a", "i", "l", "e", "d", "_", "1", ".", "j", "s", "o", "n">>),
             Path(DataDir, MergedName("promotion", DateTime(2023, 12, 1, 15))) }
        |-> IF p.name = MergedName("promotion", DateTime(2023, 12, 1, 15))
            THEN File(Content("list", <<>>, <<>>, NoMeta),
                      DateTime(2023, 12, 1, 15))
            ELSE File(Invalid, DateTime(2023, 12, 1, 15))]

MergeDisks ==
    { WriteFile(d, RawPath, File(c, MergeClock)) :
          d \in {<<>>, IdlePromotion}, c \in RawContents }

RECURSIVE DaysAhead(_, _)
DaysAhead(clock, n) ==
    IF n = 0 THEN clock ELSE DaysAhead(NextDay(clock), n - 1)

InitMerge ==
    /\ pc = "process"
    /\ crawler_type = CLOUD_CRAWLER_CONFIGS[1].name
    /\ disk \in MergeDisks
    /\ disk0 = disk
    /\ now = MergeClock
    /\ records = <<>>
    /\ written = <<>>
    /\ ready = {}
    /\ failed = {}
    /\ run = 1
    /\ history = NoHistory
    /\ NoReducer

\* A file the loaders of the dataset would read cannot be loaded.
LoadRefused(d, cfg) ==
    \E p \in Glob(d, DataDir, MergedPattern(cfg))
                \cup Glob(d, DataDir, cfg.file_pattern) :
        _load_json(d[p].content).raised

\* process_crawler(cfg) for the dataset the loop of main() has reached;
\* records are the rows it loaded.
ProcessCrawler ==
    /\ pc = "process"
    /\ \E env \in Envs(disk, CloudConfigOf(crawler_type)) :
          \E r \in {process_crawler(disk, CloudConfigOf(crawler_type), now,
                                   env)} :
              /\ disk' = r.disk
              /\ records' = r.loaded
              /\ written' = r.written
              /\ failed' = r.failed
              /\ pc' = IF r.raised THEN "raised" ELSE "processed"
              /\ history' =
                    [loaded |-> history.loaded \cup
                                   {[name |-> crawler_type, row |-> r.loaded[i]] :
                                       i \in 1..Len(r.loaded)},
                     refused |-> \/ history.refused
                                 \/ r.failed # {}
                                 \/ LoadRefused(disk, CloudConfigOf(crawler_type))]
    /\ disk0' = disk
    /\ UNCHANGED <<crawler_type, now, ready, run>>
    /\ UNCHANGED reducervars

LastCrawler == CLOUD_CRAWLER_CONFIGS[Len(CLOUD_CRAWLER_CONFIGS)].name

\* for cfg in CRAWLER_CONFIGS: the next dataset
NextCrawler ==
    /\ pc = "processed"
    /\ crawler_type # LastCrawler
    /\ \E i \in 1..(Len(CLOUD_CRAWLER_CONFIGS) - 1) :
          /\ CLOUD_CRAWLER_CONFIGS[i].name = crawler_type
          /\ crawler_type' = CLOUD_CRAWLER_CONFIGS[i + 1].name
    /\ pc' = "process"
    /\ UNCHANGED <<records, now, disk, disk0, written, ready, failed, run>>
    /\ UNCHANGED reducervars
    /\ UNCHANGED history

\* cleanup_old_archives(BASE_DIR, days=DAYS_TO_KEEP_ARCHIVES) at the end of
\* main()
MainCleanup ==
    /\ pc = "processed"
    /\ crawler_type = LastCrawler
    /\ \E env \in PruneEnvs(disk) :
          LET r == cleanup_old_archives(disk, now, DAYS_TO_KEEP_ARCHIVES, env)
          IN  /\ disk' = r.disk
              /\ failed' = r.failed
              /\ history' = [history EXCEPT
                                !.refused = history.refused \/ r.failed # {}]
    /\ disk0' = disk
    /\ written' = <<>>
    /\ pc' = "done"
    /\ UNCHANGED <<records, crawler_type, now, ready, run>>
    /\ UNCHANGED reducervars

\* The next scheduled run: later the same day, the day after or a month
\* after; the scraper may have written its output file anew.
NextMergeRun ==
    /\ pc \in {"done", "raised"}
    /\ run < MaxRuns
    /\ run' = run + 1
    /\ now' \in {now, NextDay(now), DaysAhead(now, 31)}
    /\ \/ disk' = disk
       \/ \E c \in RawContents : disk' = WriteFile(disk, RawPath, File(c, now'))
    /\ disk0' = disk'
    /\ written' = <<>>
    /\ failed' = {}
    /\ records' = <<>>
    /\ crawler_type' = CLOUD_CRAWLER_CONFIGS[1].name
    /\ pc' = "process"
    /\ UNCHANGED ready
    /\ UNCHANGED reducervars
    /\ UNCHANGED history

NextMerge == ProcessCrawler \/ NextCrawler \/ MainCleanup \/ NextMergeRun

SpecMerge == InitMerge /\ [][NextMerge]_vars

\* C14: when process_crawler has written the new merged file and rotated,
\* and the dataset had a merged file before, one merged file of the dataset
\* is in the primary directory.
C14_OneMergedFile ==
    /\ pc = "processed"
    /\ written # <<>>
    /\ MergedFilesOf(disk0, crawler_type) # {}
    => Cardinality(MergedFilesOf(disk, crawler_type)) = 1

-----------------------------------------------------------------------------
(* The loaders *)

\* all_records.extend(items) for each list among the values of data["data"]
RECURSIVE ConcatGroupRows(_, _)
ConcatGroupRows(groups, i) ==
    IF i > Len(groups) THEN <<>>
    ELSE groups[i].rows \o ConcatGroupRows(groups, i + 1)

\* The body of the loop of _load_json_files for one file: the records it
\* adds.  A top-level array has no element "data" and adds nothing; a number
\* raises at `"data" in data`, which is caught.
LoadJsonFile(content) ==
    CASE content.shape = "data_list" -> content.rows
      [] content.shape = "data_dict" -> ConcatGroupRows(content.groups, 1)
      [] OTHER -> <<>>

MergedMark == <<"_", "m", "e", "r", "g", "e", "d", "_">>

\* _load_json_files over the files in the order glob() lists them
RECURSIVE LoadFilesFrom(_, _, _)
LoadFilesFrom(d, files, i) ==
    IF i > Len(files) THEN <<>>
    ELSE IF Contains(files[i].name, MergedMark)
    THEN LoadFilesFrom(d, files, i + 1)
    ELSE LoadJsonFile(d[files[i]].content) \o LoadFilesFrom(d, files, i + 1)

_load_json_files(d, files) == LoadFilesFrom(d, files, 1)

\* list(paths): the paths in any order
Listings(S) ==
    {f \in [1..Cardinality(S) -> S] : \A i, j \in DOMAIN f : f[i] = f[j] => i = j}

\* The rows found in the files.
RowA == Rec(X1, IsoStr(1, ""), TitleA)

RowB == Rec(X2, IsoStr(1, ""), TitleA)

RowC == Rec(X1, IsoStr(2, ""), TitleB)

RowD == Rec(X2, IsoStr(2, ""), TitleB)

RowE == Rec(X2, IsoStr(3, ""), TitleA)

\* What a file may hold, with rows r1 and r2: the three shapes the scrapers
\* write, and what is no input of the engine.
Shapes(r1, r2) ==
    { Content("list", <<r1, r2>>, <<>>, NoMeta),
      Content("data_list", <<r1, r2>>, <<>>, NoMeta),
      Content("data_dict", <<>>,
              << [k |-> "a", rows |-> <<r1>>], [k |-> "b", rows |-> <<r2>>] >>,
              NoMeta),
      Invalid,
      Content("object", <<>>, <<>>, NoMeta),
      Content("data_other", <<>>, <<>>, NoMeta),
      Content("scalar", <<>>, <<>>, NoMeta) }

\* Two file names for each loader: raw files of the merge run, merged files,
\* raw files of the hash-dedup pipeline.
LoadNames ==
    { << <<"t", "e", "n", "d", "e", "r", "_", "b", "a", "t", "c", "h", "_", "1", ".", "j", "s", "o", "n">>, <<"t", "e", "n", "d", "e", "r", "_", "b", "a", "t", "c", "h", "_", "2", ".", "j", "s", "o", "n">> >>,
      << <<"t", "e", "n", "d", "e", "r", "_", "m", "e", "r", "g", "e", "d", "_", "2", "0", "2", "4", "0", "1", "0", "1", ".", "j", "s", "o", "n">>, <<"t", "e", "n", "d", "e", "r", "_", "m", "e", "r", "g", "e", "d", "_", "2", "0", "2", "4", "0", "1", "1", "5", ".", "j", "s", "o", "n">> >>,
      << <<"p", "u", "b", "l", "i", "c", "_", "r", "e", "a", "d", "_", "1", ".", "j", "s", "o", "n">>, <<"p", "u", "b", "l", "i", "c", "_", "r", "e", "a", "d", "_", "3", ".", "j", "s", "o", "n">> >> }

\* A merged file that the raw-file loaders must pass over.
MergedDecoy ==
    [p \in {Path(DataDir, <<"p", "u", "b", "l", "i", "c", "_", "r", "e", "a", "d", "_", "m", "e", "r", "g", "e", "d", "_", "2", "0", "2", "4", "0", "1", "0", "1", "_", "b", "a", "t", "c", "h", "0", "0", "1", ".", "j", "s", "o", "n">>)} |->
        File(Content("data_list", <<RowE>>, <<>>,
                     [crawlerId |-> "public-read",
                      mergedAt |-> DateTime(2024, 1, 1, 3), batchNumber |-> 1,
                      totalBatches |-> 1, totalRecords |-> 1]),
             DateTime(2024, 1, 1, 3))]

LoadDisks ==
    { [p \in DOMAIN MergedDecoy \cup {Path(DataDir, names[i]) : i \in here} |->
          IF p \in DOMAIN MergedDecoy THEN MergedDecoy[p]
          ELSE File(IF p.name = names[1] THEN c1 ELSE c2,
                    DateTime(2024, 1, 15, 3))] :
        names \in LoadNames, here \in SUBSET {1, 2},
        c1 \in Shapes(RowA, RowB), c2 \in Shapes(RowC, RowD) }

InitLoad ==
    /\ pc = "start"
    /\ disk \in LoadDisks
    /\ disk0 = disk
    /\ now = DateTime(2024, 1, 15, 3)
    /\ crawler_type = ""
    /\ records = <<>>
    /\ written = <<>>
    /\ ready = {}
    /\ failed = {}
    /\ run = 1
    /\ history = NoHistory
    /\ NoReducer

\* raw_rows = _load_raw_crawler_records(cfg)
LoadRawCrawlerRecords ==
    /\ pc = "start"
    /\ \E name \in CloudNames :
          /\ crawler_type' = name
          /\ records' = _load_raw_crawler_records(disk, CloudConfigOf(name))
    /\ pc' = "loaded raw"
    /\ UNCHANGED <<now, disk, disk0, written, ready, failed, run>>
    /\ UNCHANGED reducervars
    /\ UNCHANGED history

\* previous_rows, existing_merged_files = _load_previous_merged_records(cfg)
LoadPreviousMergedRecords ==
    /\ pc = "start"
    /\ \E name \in CloudNames :
          /\ crawler_type' = name
          /\ records' =
                _load_previous_merged_records(disk, CloudConfigOf(name)).rows
    /\ pc' = "loaded merged"
    /\ UNCHANGED <<now, disk, disk0, written, ready, failed, run>>
    /\ UNCHANGED reducervars
    /\ UNCHANGED history

\* records = self._load_json_files(config["file_pattern"])
LoadJsonFiles ==
    /\ pc = "start"
    /\ \E ct \in DOMAIN CRAWLER_CONFIGS :
          \E files \in Listings(Glob(disk, DataDir, file_pattern[ct])) :
              /\ crawler_type' = ct
              /\ records' = _load_json_files(disk, files)
    /\ pc' = "loaded utils"
    /\ UNCHANGED <<now, disk, disk0, written, ready, failed, run>>
    /\ UNCHANGED reducervars
    /\ UNCHANGED history

NextLoad ==
    LoadRawCrawlerRecords \/ LoadPreviousMergedRecords \/ LoadJsonFiles

SpecLoad == InitLoad /\ [][NextLoad]_vars

\* The files the loader that ran reads.
InputFiles ==
    CASE pc = "loaded raw" ->
            {p \in DOMAIN disk :
                /\ p.parent = <<>>
                /\ GlobMatch(p.name, CloudConfigOf(crawler_type).file_pattern)}
      [] pc = "loaded merged" -> MergedFilesOf(disk, crawler_type)
      [] pc = "loaded utils" ->
            {p \in DOMAIN disk :
                /\ p.parent = <<>>
                /\ GlobMatch(p.name, file_pattern[crawler_type])
                /\ ~Contains(p.name, <<"_", "m", "e", "r", "g", "e", "d", "_">>)}
      [] OTHER -> {}

Loaded == pc \in {"loaded raw", "loaded merged", "loaded utils"}

\* No JSON, or JSON of none of the three shapes of an input file.
Malformed(content) ==
    content.shape \in {"invalid", "object", "data_other", "scalar"}

\* The records a file holds.
RowsOf(content) ==
    CASE content.shape \in {"list", "data_list"} -> content.rows
      [] content.shape = "data_dict" -> ConcatGroupRows(content.groups, 1)
      [] OTHER -> <<>>

\* The shapes the loader that ran reads records from (C18 is about the
\* shape each of them does not read).
Reads(content) ==
    IF pc = "loaded utils" THEN content.shape \in {"data_list", "data_dict"}
    ELSE content.shape \in {"list", "data_list"}

\* The records of the files of a listing that the loader reads, file after
\* file.
RECURSIVE RowsRead(_, _)
RowsRead(order, i) ==
    IF i > Len(order) THEN <<>>
    ELSE (IF Reads(disk[order[i]].content)
          THEN RowsOf(disk[order[i]].content) ELSE <<>>)
             \o RowsRead(order, i + 1)

\* C17: a file that is no JSON or has an unexpected shape adds nothing and
\* stops nothing: the loader returns the records of every file it reads,
\* file after file, in file name order in the merge run and in listing
\* order in the hash-dedup pipeline.
C17_MalformedSkipped ==
    Loaded =>
        \E order \in Listings(InputFiles) :
            /\ records = RowsRead(order, 1)
            /\ pc # "loaded utils" =>
                  \A i, j \in DOMAIN order :
                      i < j => StrLess(order[i].name, order[j].name)

\* A malformed file is read before a well-formed one, whose records are
\* returned, here by the loader of the previous merged files.
C17_Witness ==
    /\ pc = "loaded merged"
    /\ \E p, q \in InputFiles :
          /\ StrLess(p.name, q.name)
          /\ Malformed(disk[p].content)
          /\ disk[q].content.shape = "list"
          /\ records = disk[q].content.rows
          /\ records # <<>>

\* C18: the loader returns every record of every file that has one of the
\* three shapes of an input file.
C18_AllShapesLoaded ==
    Loaded =>
        \A p \in InputFiles :
            \A i \in DOMAIN RowsOf(disk[p].content) :
                \E j \in DOMAIN records :
                    records[j] = RowsOf(disk[p].content)[i]

-----------------------------------------------------------------------------
(* run_data_cleaner: clean_all over the data directory, then the list of
   merged files; run after run *)

\* clean_crawler_type(crawler_type) with the files of the pattern listed in
\* the order files; fail is what the filesystem does to the writes.
clean_crawler_type(d, ct, clock, files, fail) ==
    LET config == CRAWLER_CONFIGS[ct]
        loaded == _load_json_files(d, files)
        valid == ValidRecords(loaded, config.date_field, clock)
        unique == UniqueRecords(valid.rows, config.id_field)
        saved == _save_batches(d, unique, output_prefix[ct], crawler_id[ct],
                               BatchSize, clock, fail)
    IN  IF loaded = <<>>
        THEN [disk |-> d, raised |-> FALSE, records |-> loaded,
              valid_records |-> <<>>, unique_records |-> <<>>,
              written |-> <<>>, failed |-> {}]
        ELSE IF valid.raised
        THEN [disk |-> d, raised |-> TRUE, records |-> loaded,
              valid_records |-> <<>>, unique_records |-> <<>>,
              written |-> <<>>, failed |-> {}]
        ELSE [disk |-> saved.disk, raised |-> saved.raised,
              records |-> loaded, valid_records |-> valid.rows,
              unique_records |-> unique, written |-> saved.written,
              failed |-> saved.failed]

\* get_merged_files(): the files of the data directory that match the merged
\* pattern of a crawler type.
get_merged_files(d) ==
    UNION { Glob(d, DataDir, Pattern(output_prefix[ct] \o <<"_">>, JsonSuffix)) :
                ct \in DOMAIN CRAWLER_CONFIGS }

RunClock == DateTime(2024, 1, 31, 15)

RunRawPath == Path(DataDir, <<"t", "e", "n", "d", "e", "r", "_", "a", "n", "n", "o", "u", "n", "c", "e", "m", "e", "n", "t", "_", "1", ".", "j", "s", "o", "n">>)

\* A tender open until 113/02/29 and one closed since 112/12/12.
OpenRow(id, t) == Row(id, "deadline", Deadline(<<113, 2, 29>>), t)

ClosedRow(id, t) == Row(id, "deadline", Deadline(<<112, 12, 12>>), t)

\* What the scraper leaves in its output file: one record, three records
\* with a closed tender before them, a top-level array, no JSON.
RunRawContents ==
    { Content("data_list", << OpenRow(X1, 1) >>, <<>>, NoMeta),
      Content("data_list",
              << ClosedRow(X2, 1), OpenRow(X1, 1), OpenRow(X2, 1),
                 OpenRow(X1, 2) >>,
              <<>>, NoMeta),
      Content("list", << OpenRow(X1, 1) >>, <<>>, NoMeta),
      Invalid }

\* What the filesystem does to the writes of one crawler type: nothing, or
\* it refuses the first.
RunFailures == {NoFailure, [at |-> 1, partial |-> FALSE]}

InitRun ==
    /\ pc = "clean"
    /\ crawler_type = crawler_types[1]
    /\ disk \in { WriteFile(<<>>, RunRawPath, File(c, RunClock)) :
                      c \in RunRawContents }
    /\ disk0 = disk
    /\ now = RunClock
    /\ records = <<>>
    /\ valid_records = <<>>
    /\ unique_records = <<>>
    /\ written = <<>>
    /\ ready = {}
    /\ failed = {}
    /\ run = 1
    /\ history = NoHistory
    /\ result = <<>>
    /\ result2 = <<>>
    /\ date_value = None
    /\ expired = FALSE

\* clean_crawler_type for the crawler type the loop of clean_all has
\* reached; an exception is caught by clean_all.  written gathers the paths
\* written during the run.
CleanType ==
    /\ pc = "clean"
    /\ \E files \in Listings(Glob(disk, DataDir, file_pattern[crawler_type])),
          fail \in RunFailures :
          \E r \in {clean_crawler_type(disk, crawler_type, now, files, fail)} :
              /\ disk' = r.disk
              /\ records' = r.records
              /\ valid_records' = r.valid_records
              /\ unique_records' = r.unique_records
              /\ written' = written \o r.written
              /\ failed' = r.failed
              /\ pc' = IF r.raised THEN "errored" ELSE "cleaned"
    /\ disk0' = disk
    /\ UNCHANGED <<crawler_type, now, ready, run>>
    /\ UNCHANGED <<result, result2, date_value, expired>>
    /\ UNCHANGED history

\* for crawler_type in self.CRAWLER_CONFIGS: the next type
NextType ==
    /\ pc \in {"cleaned", "errored"}
    /\ \E i \in 1..(Len(crawler_types) - 1) :
          /\ crawler_types[i] = crawler_type
          /\ crawler_type' = crawler_types[i + 1]
    /\ pc' = "clean"
    /\ UNCHANGED <<records, valid_records, unique_records, now, disk, disk0,
                   written, ready, failed, run>>
    /\ UNCHANGED <<result, result2, date_value, expired>>
    /\ UNCHANGED history

\* return {"stats": results, "merged_files": cleaner.get_merged_files()}
GetMergedFiles ==
    /\ pc \in {"cleaned", "errored"}
    /\ crawler_type = crawler_types[Len(crawler_types)]
    /\ ready' = get_merged_files(disk)
    /\ pc' = "returned"
    /\ UNCHANGED <<records, valid_records, unique_records, crawler_type, now,
                   disk, disk0, written, failed, run>>
    /\ UNCHANGED <<result, result2, date_value, expired>>
    /\ UNCHANGED history

\* The next scheduled run, on the same day or the day after; the scraper may
\* have written its output file anew.
NextCleanerRun ==
    /\ pc = "returned"
    /\ run < MaxRuns
    /\ run' = run + 1
    /\ now' \in {now, NextDay(now)}
    /\ \/ disk' = disk
       \/ \E c \in RunRawContents :
             disk' = WriteFile(disk, RunRawPath, File(c, now'))
    /\ disk0' = disk'
    /\ written' = <<>>
    /\ ready' = {}
    /\ failed' = {}
    /\ records' = <<>>
    /\ valid_records' = <<>>
    /\ unique_records' = <<>>
    /\ crawler_type' = crawler_types[1]
    /\ pc' = "clean"
    /\ UNCHANGED <<result, result2, date_value, expired>>
    /\ UNCHANGED history

NextRun == CleanType \/ NextType \/ GetMergedFiles \/ NextCleanerRun

SpecRun == InitRun /\ [][NextRun]_vars

\* C20: the list of merged files the run returns holds the batch files the
\* run wrote and no other file.
C20_ReadyIsThisRun ==
    pc = "returned" => ready = {written[i] : i \in 1..Len(written)}

-----------------------------------------------------------------------------
(* The two pipelines, each over its own directory *)

InitPipelines == InitMerge \/ InitRun

NextPipelines == NextMerge \/ NextRun

SpecPipelines == InitPipelines /\ [][NextPipelines]_vars

\* C19: when a dataset has no record to load, its processing returns
\* without an exception and leaves the directory as it was: process_crawler
\* in the merge run, which then has written nothing, and clean_crawler_type
\* in the hash-dedup pipeline.
C19_NoRecordsNoOp ==
    /\ pc \in {"processed", "raised"} /\ records = <<>> =>
          /\ pc = "processed"
          /\ disk = disk0
          /\ written = <<>>
    /\ pc \in {"cleaned", "errored"} /\ records = <<>> =>
          /\ pc = "cleaned"
          /\ disk = disk0
          /\ unique_records = <<>>

\* A dataset with a raw file that is no JSON and a merged file that holds
\* no row: nothing is loaded and both files stay.
C19_Witness ==
    /\ pc = "processed"
    /\ crawler_type = "promotion"
    /\ records = <<>>
    /\ MergedFilesOf(disk0, "promotion") # {}
    /\ \E p \in DOMAIN disk0 :
          /\ GlobMatch(p.name, CloudConfigOf("promotion").file_pattern)
          /\ disk0[p].content.shape = "invalid"
    /\ disk = disk0

-----------------------------------------------------------------------------
(* The Temporal Key: rows of one id that differ in their timestamp fields *)

MaxKeyLen == 2

\* What a row holds under "scrapedAt": nothing, an empty value, a zone-less
\* or zone-marked ISO string, text that is no date-time, a number.
ScrapedAtChoices ==
    {<<>>}
    \cup {<<Item("scrapedAt", v)>> :
             v \in {None, Str(<<>>), Num(0), IsoStr(1, ""), IsoStr(2, "Z"),
                    Str(<<"n", "/", "a">>), Num(5)}}

\* What a row holds under the fields tried after "scrapedAt".
LaterChoices ==
    { <<>>,
      <<Item("createdAt", IsoStr(3, ""))>>,
      <<Item("created_at", IsoStr(1, "")),
        Item("scraped_at", Str(<<"n", "/", "a">>))>> }

KeyRows ==
    {<<Item("tenderId", X1), Item("title", TitleA)>> \o a \o b :
        a \in ScrapedAtChoices, b \in LaterChoices}

InitKey ==
    /\ pc = "start"
    /\ NoFiles
    /\ records \in SeqsUpTo(KeyRows, MaxKeyLen)
    /\ result = <<>>
    /\ result2 = <<>>
    /\ now = NoClock
    /\ date_value = None
    /\ expired = FALSE
    /\ crawler_type = ""
    /\ valid_records = <<>>
    /\ unique_records = <<>>

SpecKey == InitKey /\ [][NextReduce]_vars

\* The positions in the precedence order whose field holds a value in the
\* row: a value that is not null, not the empty string and not zero.
Holding(rec) ==
    {i \in 1..Len(TimestampFields) : Truthy(Get(rec, TimestampFields[i]))}

\* The value of the first field in the precedence order that holds one.
FirstHeld(rec) ==
    Get(rec, TimestampFields[CHOOSE i \in Holding(rec) :
                                 \A j \in Holding(rec) : i <= j])

\* The instant an ISO string denotes, a trailing "Z" read as offset zero.
InstantOf(v) ==
    [type |-> "datetime", s |-> <<>>, n |-> v.n,
     zone |-> IF v.zone = "Z" THEN "+00:00" ELSE v.zone]

Priority(rec) == _record_timestamp_key(rec).prio

\* C21: the Temporal Key of a row is priority 2 when none of the candidate
\* fields holds a value; otherwise the first candidate field in the
\* precedence order that holds a value decides: priority 0 with the parsed
\* instant when the value is an ISO string, priority 1 with the raw value
\* when it is not.  When the reducer returns, the priorities never decrease
\* along a sorted group nor along the rows returned for it: parseable rows
\* come before unparsable ones, rows without a timestamp last.
C21_TemporalKey ==
    /\ \A k \in 1..Len(records) :
          LET rec == records[k]
              key == _record_timestamp_key(rec)
          IN  IF Holding(rec) = {} THEN key = Key(2, Str(<<>>))
              ELSE IF FirstHeld(rec).type = "isostr"
                   THEN key = Key(0, InstantOf(FirstHeld(rec)))
                   ELSE key = Key(1, FirstHeld(rec))
    /\ pc = "reduced" =>
          \A id \in IdsOf(records) :
              LET S == versions_sorted(GroupOf(records, id))
                  R == GroupOf(result, id)
              IN  /\ \A i, j \in 1..Len(S) :
                        i < j => Priority(S[i]) <= Priority(S[j])
                  /\ \A i, j \in 1..Len(R) :
                        i < j => Priority(R[i]) <= Priority(R[j])

\* A row whose capture time is empty and whose key comes from a later field is
\* given before a row with unparsable capture time, and is returned after it.
C21_Witness ==
    /\ pc = "reduced"
    /\ Len(records) = 2
    /\ Get(records[1], "scrapedAt") = Str(<<"n", "/", "a">>)
    /\ Has(records[2], "scrapedAt") /\ ~Truthy(Get(records[2], "scrapedAt"))
    /\ Priority(records[1]) = 1
    /\ Priority(records[2]) = 0
    /\ result = <<records[2], records[1]>>

\* C22: sorting a group never raises: the keys of any two rows of one group
\* can be compared, and the reducer returns a result.
C22_SortNeverRaises ==
    /\ pc # "raised"
    /\ \A i, j \in 1..Len(records) :
          Get(records[i], id_field) = Get(records[j], id_field) =>
              ~KeyRaises(_record_timestamp_key(records[i]),
                         _record_timestamp_key(records[j]))

-----------------------------------------------------------------------------
(* Claims about the order of the input files and about a failing dataset *)

\* C24: every loader reads its input files in file name order, whatever the
\* order in which the filesystem lists them: the records it returns are the
\* records of the files, file after file in ascending name order.
C24_ReadInNameOrder ==
    Loaded => records = RowsRead(SortedPaths(InputFiles), 1)

\* C25: a dataset whose processing raised does not end the run: the step
\* after it is the processing of the next dataset, or the end of the run (the
\* pruning of the archives in the merge run, the returned result in the
\* hash-dedup pipeline), never the start of another run.
C25_FailureNotFatal ==
    [][(pc \in {"raised", "errored"}) =>
          (run' = run /\ pc' \in {"process", "clean", "done", "returned"})]_vars

-----------------------------------------------------------------------------
(* Merge runs over a directory that holds earlier generations *)

GenDays ==
    << DateTime(2023, 12, 1, 15), DateTime(2023, 12, 15, 15),
       DateTime(2024, 1, 1, 15) >>

\* The merged file that lies in the archive at the start.
GenArchived == Path(ArchiveDir, MergedName("tender", DateTime(2023, 11, 1, 15)))

\* What the scraper has left: the contents of RawContents, or a record whose
\* capture time carries the zone mark.
GenRawContents ==
    RawContents
    \cup { Content("list", << Rec(X1, IsoStr(2, "Z"), TitleB) >>, <<>>, NoMeta) }

\* A directory of the tender dataset as the runs before the last two have
\* left it: the merged files of the last n days on which a run wrote one,
\* perhaps a merged file in the archive, and the output file of the scraper.
GenDisk(n, archived, c) ==
    LET primary == {Path(DataDir, MergedName("tender", GenDays[i])) :
                       i \in (Len(GenDays) - n + 1)..Len(GenDays)}
        DayOf(p) == CHOOSE day \in {GenDays[i] : i \in 1..Len(GenDays)} :
                        p.name = MergedName("tender", day)
    IN  [p \in primary \cup (IF archived THEN {GenArchived} ELSE {})
                  \cup {RawPath} |->
            IF p \in primary THEN MergedFile(DayOf(p))
            ELSE IF p = RawPath THEN File(c, MergeClock)
            ELSE MergedFile(DateTime(2023, 11, 1, 15))]

InitGenerations ==
    /\ pc = "process"
    /\ crawler_type = CLOUD_CRAWLER_CONFIGS[1].name
    /\ disk \in { GenDisk(n, archived, c) :
                     n \in 0..Len(GenDays), archived \in BOOLEAN,
                     c \in GenRawContents }
    /\ disk0 = disk
    /\ now = MergeClock
    /\ records = <<>>
    /\ written = <<>>
    /\ ready = {}
    /\ failed = {}
    /\ run = MaxRuns - 1
    /\ history = NoHistory
    /\ NoReducer

SpecGenerations == InitGenerations /\ [][NextMerge]_vars

\* The merged files of 2023-12-01 and 2023-12-15 of the tender dataset.
Gen1201 == Path(DataDir, MergedName("tender", GenDays[1]))

Gen1215 == Path(DataDir, MergedName("tender", GenDays[2]))

\* The merged files due for the archive when process_crawler began: all
\* that were in the primary directory but the one with the greatest name.
DueForArchive ==
    LET existing == MergedFilesOf(disk0, crawler_type)
    IN  IF existing = {} THEN {} ELSE existing \ {Greatest(existing)}

\* C23: a refused file operation stops neither rotation nor pruning.  When
\* process_crawler has written the new merged file, every file due for the
\* archive whose move was not refused is in the archive as it was, and the
\* ones whose move was refused are where they were; process_crawler raises
\* only before it has written.  When the prune is done, every archived file
\* past retention on which no stat or delete was refused is gone.
C23_FailuresDoNotAbort ==
    /\ pc = "processed" /\ written # <<>> =>
          /\ \A p \in DueForArchive \ failed :
                /\ p \notin DOMAIN disk
                /\ Archived(p) \in DOMAIN disk
                /\ disk[Archived(p)] = disk0[p]
          /\ \A p \in DueForArchive \cap failed :
                p \in DOMAIN disk /\ disk[p] = disk0[p]
    /\ pc = "raised" => written = <<>> /\ failed \cap DueForArchive = {}
    /\ pc = "done" =>
          \A p \in DOMAIN disk0 \ failed :
              InArchive(p) /\ PastRetention(disk0[p]) => p \notin DOMAIN disk

\* The move of the merged file of 2023-12-01 was refused and the file of
\* 2023-12-15 was archived all the same; then the delete of that file was
\* refused and the older archived file was deleted all the same.
C23_Witness ==
    /\ pc = "done"
    /\ Gen1201 \in DOMAIN disk
    /\ Gen1215 \notin DOMAIN disk
    /\ failed = {Archived(Gen1215)}
    /\ Archived(Gen1215) \in DOMAIN disk
    /\ GenArchived \in DOMAIN disk0
    /\ GenArchived \notin DOMAIN disk

\* The path names a merged file of some dataset.
IsMergedFile(p) ==
    \E name \in CloudNames :
        /\ StartsWith(p.name, CloudConfigOf(name).merged_prefix \o <<"_">>)
        /\ EndsWith(p.name, JsonSuffix)

\* One step in the life of the merged files: a file of the primary directory
\* stays or goes to the archive as it is; an archived file stays as it is or
\* is deleted, by the prune and past its retention; a merged file new in the
\* primary directory is the file process_crawler writes.
LifecycleStep ==
    /\ \A p \in DOMAIN disk :
          IsMergedFile(p) /\ p.parent = DataDir =>
              \/ p \in DOMAIN disk'
              \/ /\ Archived(p) \in DOMAIN disk'
                 /\ disk'[Archived(p)] = disk[p]
    /\ \A p \in DOMAIN disk :
          IsMergedFile(p) /\ InArchive(p) =>
              \/ p \in DOMAIN disk' /\ disk'[p] = disk[p]
              \/ /\ p \notin DOMAIN disk'
                 /\ pc' = "done"
                 /\ PastRetention(disk[p])
    /\ \A p \in DOMAIN disk' \ DOMAIN disk :
          IsMergedFile(p) /\ p.parent = DataDir =>
              /\ pc = "process"
              /\ p = OutputPath(CloudConfigOf(crawler_type), now)

\* C26: a merged file only moves forward through created, primary
\* directory, archive, deleted: every step of every run is a LifecycleStep.
C26_Lifecycle == [][LifecycleStep]_vars

\* The merged file of 2023-12-01, in the primary directory at the start, was
\* in the archive when the prune began and is deleted now.
C26_Witness ==
    /\ pc = "done"
    /\ Archived(Gen1201) \in DOMAIN disk0
    /\ Archived(Gen1201) \notin DOMAIN disk
    /\ Gen1201 \notin DOMAIN disk

\* C27: when the write of the new merged file fails, every merged file that
\* was in the primary directory is still there as it was.
C27_PreviousGenerationIntact ==
    pc = "raised" /\ failed # {} =>
        \A p \in MergedFilesOf(disk0, crawler_type) :
            p \in DOMAIN disk /\ disk[p] = disk0[p]

\* C29: when no file operation of any run so far was refused, the merged
\* file a run has just written holds every content version with an id that
\* this run or an earlier one loaded for the dataset.
C29_NoVersionLostAcrossRuns ==
    pc = "processed" /\ written # <<>> /\ ~history.refused =>
        \A h \in history.loaded :
            h.name = crawler_type /\ Get(h.row, id_field) # None =>
                VersionIn(h.row, WithId(disk[written[1]].content.rows))

=============================================================================
